---- MODULE Spec2Model ----
(***************************************************************************)
(* Exotic bet optimizer (src/exotic_bet_optimizer.py): probability         *)
(* calibration, joint probabilities of ordered finishes, combination       *)
(* generation (payout, expected value, Kelly fraction, confidence) and     *)
(* EV signal generation.                                                   *)
(*                                                                         *)
(* Numbers.  The program computes with floats.  The model computes with    *)
(* exact rationals extended by the program's guard constant 1e-10, kept    *)
(* as the symbol EPS: a number is  h/EPS + s + e*EPS  with h, s, e         *)
(* rational, written <<h, s, e>>.  Sums, differences, and products and     *)
(* quotients by a rational are exact; any other product or quotient is     *)
(* rounded to its terms of order 1/EPS and 1 (a relative error of the      *)
(* order of 1e-10).  Two numbers are ordered as their values are for       *)
(* EPS = 1e-10 as long as the rational parts are far coarser than 1e-10,   *)
(* which holds for every number the model draws.  Float rounding itself    *)
(* is not modelled.                                                        *)
(***************************************************************************)
EXTENDS Integers, Sequences, FiniteSets, TLC

\* ------------------------------------------------------------ rationals
\* A rational is <<n, d>> with d > 0 and gcd(n, d) = 1; zero is <<0, 1>>.

Abs(x) == IF x < 0 THEN -x ELSE x

RECURSIVE GCD(_, _)
GCD(a, b) == IF b = 0 THEN a ELSE GCD(b, a % b)

Rat(n, d) ==
  IF n = 0 THEN <<0, 1>>
  ELSE LET g == GCD(Abs(n), Abs(d))
       IN  IF d < 0 THEN <<(-n) \div g, (-d) \div g>> ELSE <<n \div g, d \div g>>

RZero == <<0, 1>>
ROne == <<1, 1>>

RNeg(a) == <<-a[1], a[2]>>

RAdd(a, b) ==
  IF a[1] = 0 THEN b
  ELSE IF b[1] = 0 THEN a
  ELSE LET g == GCD(a[2], b[2])
       IN  Rat(a[1] * (b[2] \div g) + b[1] * (a[2] \div g), (a[2] \div g) * b[2])

RSub(a, b) == RAdd(a, RNeg(b))

RMul(a, b) ==
  IF a[1] = 0 \/ b[1] = 0 THEN RZero
  ELSE LET g1 == GCD(Abs(a[1]), b[2])
           g2 == GCD(Abs(b[1]), a[2])
       IN  <<(a[1] \div g1) * (b[1] \div g2), (a[2] \div g2) * (b[2] \div g1)>>

\* 1/a for a # 0
RInv(a) == IF a[1] < 0 THEN <<-a[2], -a[1]>> ELSE <<a[2], a[1]>>

RDiv(a, b) == RMul(a, RInv(b))

\* a/b < c/d for a, c >= 0 and b, d > 0, by comparing the integer parts and
\* then the reciprocals of the fractional parts (no product is formed)
RECURSIVE FracLt(_, _, _, _)
FracLt(a, b, c, d) ==
  IF a \div b # c \div d THEN a \div b < c \div d
  ELSE IF c % d = 0 THEN FALSE
  ELSE IF a % b = 0 THEN TRUE
  ELSE FracLt(d, c % d, b, a % b)

\* a < b
RLt(a, b) ==
  IF a[2] = b[2] THEN a[1] < b[1]
  ELSE IF a[1] < 0 /\ b[1] >= 0 THEN TRUE
  ELSE IF a[1] >= 0 /\ b[1] < 0 THEN FALSE
  ELSE IF a[1] < 0 THEN FracLt(-b[1], b[2], -a[1], a[2])
  ELSE FracLt(a[1], a[2], b[1], b[2])

\* --------------------------------------------------- numbers with EPS
\* <<h, s, e>> stands for h/EPS + s + e*EPS.

Num(n, d) == <<RZero, Rat(n, d), RZero>>
Zero == Num(0, 1)
One == Num(1, 1)

\* the guard constant added to the denominators, 1e-10
EPS == <<RZero, RZero, ROne>>

NAdd(x, y) == <<RAdd(x[1], y[1]), RAdd(x[2], y[2]), RAdd(x[3], y[3])>>
NSub(x, y) == <<RSub(x[1], y[1]), RSub(x[2], y[2]), RSub(x[3], y[3])>>

\* x has neither a 1/EPS part nor an EPS part
IsRational(x) == x[1] = RZero /\ x[3] = RZero

\* The product.  It is exact when a factor is rational; otherwise it is
\* rounded to its terms of order 1/EPS and 1.  No product of the program has
\* both factors of order 1/EPS.
NMul(x, y) ==
  IF IsRational(x)
  THEN <<RMul(x[2], y[1]), RMul(x[2], y[2]), RMul(x[2], y[3])>>
  ELSE IF IsRational(y)
  THEN <<RMul(x[1], y[2]), RMul(x[2], y[2]), RMul(x[3], y[2])>>
  ELSE IF x[1] # RZero /\ y[1] # RZero
  THEN CHOOSE overflow \in {} : TRUE
  ELSE <<RAdd(RMul(x[1], y[2]), RMul(x[2], y[1])),
         RAdd(RMul(x[2], y[2]), RAdd(RMul(x[1], y[3]), RMul(x[3], y[1]))),
         RZero>>

\* y = 0: the float division raises ZeroDivisionError
IsZero(y) == y = Zero

\* 1/y for y # 0 without a 1/EPS part: exact for a rational y and for
\* y = e*EPS, otherwise rounded to 1/s
NInv(y) ==
  IF y[1] # RZero THEN CHOOSE overflow \in {} : TRUE
  ELSE IF y[2] # RZero THEN <<RZero, RInv(y[2]), RZero>>
  ELSE <<RInv(y[3]), RZero, RZero>>

\* x / y for y # 0: exact when y is rational, otherwise rounded to its terms
\* of order 1/EPS and 1
rounded_quotient(q, exact) == IF exact THEN q ELSE <<q[1], q[2], RZero>>

NDiv(x, y) == rounded_quotient(NMul(x, NInv(y)), IsRational(y))

\* x < y: the 1/EPS parts decide, then the rational parts, then the EPS parts
NLt(x, y) ==
  IF x[1] # y[1] THEN RLt(x[1], y[1])
  ELSE IF x[2] # y[2] THEN RLt(x[2], y[2])
  ELSE RLt(x[3], y[3])

NLe(x, y) == ~NLt(y, x)

\* Python's min(a, b) and max(a, b)
NMin(a, b) == IF NLt(b, a) THEN b ELSE a
NMax(a, b) == IF NLt(a, b) THEN b ELSE a

\* the sum of xs[lo..hi], by halves
RECURSIVE NSumOver(_, _, _)
NSumOver(xs, lo, hi) ==
  IF lo > hi THEN Zero
  ELSE IF lo = hi THEN xs[lo]
  ELSE NAdd(NSumOver(xs, lo, (lo + hi) \div 2),
            NSumOver(xs, (lo + hi) \div 2 + 1, hi))

NSum(xs) == NSumOver(xs, 1, Len(xs))

\* ------------------------------------------------------------- sequences

Range(xs) == {xs[i] : i \in DOMAIN xs}

\* xs[:k]
Prefix(xs, k) == SubSeq(xs, 1, IF k < Len(xs) THEN k ELSE Len(xs))

\* xs without its i-th element
RemoveAt(xs, i) == SubSeq(xs, 1, i - 1) \o SubSeq(xs, i + 1, Len(xs))

RECURSIVE Concat(_)
Concat(xss) == IF xss = <<>> THEN <<>> ELSE Head(xss) \o Concat(Tail(xss))

\* itertools.permutations(xs, k): the k-length arrangements of the elements of
\* xs, in lexicographic order of their positions in xs
RECURSIVE permutations(_, _)
permutations(xs, k) ==
  IF k = 0 THEN << <<>> >>
  ELSE Concat([i \in 1..Len(xs) |->
         LET rest == permutations(RemoveAt(xs, i), k - 1)
         IN  [j \in 1..Len(rest) |-> <<xs[i]>> \o rest[j]]])

\* sorted(xs, key=..., reverse=True) for the keys of the elements of xs, as the
\* positions of xs in their sorted order: descending by key and stable, so
\* positions of equal key keep their order.  The rank of a position is one
\* more than the number of positions sorted before it: those of a greater
\* key, and the earlier ones of an equal key.
sorted_before(keys, j, i) ==
  NLt(keys[i], keys[j]) \/ (j < i /\ ~NLt(keys[j], keys[i]))

sort_rank(keys, i) ==
  1 + Cardinality({j \in DOMAIN keys : sorted_before(keys, j, i)})

\* the keys and the ranks are tuples, each element computed once
sorted_reverse(keys) ==
  LET key_list == SubSeq(keys, 1, Len(keys))
      ranks == SubSeq([i \in DOMAIN key_list |-> sort_rank(key_list, i)],
                      1, Len(key_list))
  IN  [r \in DOMAIN key_list |-> CHOOSE i \in DOMAIN key_list : ranks[i] = r]

\* ---------------------------------------------------------------- horses
\* class Horse: a record with the fields of the dataclass.

\* next(h for h in horses if h.id == id): the first horse with that id
first_with_id(horses, id) ==
  horses[CHOOSE i \in 1..Len(horses) :
           /\ horses[i].id = id
           /\ \A j \in 1..(i - 1) : horses[j].id # id]

\* ------------------------------------------------- ProbabilityCalibrator

model_weight == Num(7, 10)
market_weight == Num(3, 10)

\* implied_prob = 1 / horse.odds if horse.odds > 0 else 0.01
implied_prob(horse) ==
  IF NLt(Zero, horse.odds) THEN NDiv(One, horse.odds) ELSE Num(1, 100)

implied_probs(horses) == [i \in 1..Len(horses) |-> implied_prob(horses[i])]

total_implied(horses) == NSum(implied_probs(horses))

\* normalized_probs = [prob / total_implied for prob in implied_probs]
normalized_probs(horses) ==
  LET total == total_implied(horses)
  IN  [i \in 1..Len(horses) |-> NDiv(implied_prob(horses[i]), total)]

\* the market probability alone, in the place of the blend
market_only(model_prob, market_prob) == market_prob

\* calibrated_prob = (0.7 * model_prob + 0.3 * market_prob)
blend(model_prob, market_prob) ==
  NAdd(NMul(model_weight, model_prob), NMul(market_weight, market_prob))

_estimate_place_probability(win_prob, field_size) ==
  IF field_size <= 4 THEN NMin(NMul(win_prob, Num(5, 2)), Num(95, 100))
  ELSE IF field_size <= 8 THEN NMin(NMul(win_prob, Num(22, 10)), Num(90, 100))
  ELSE NMin(NMul(win_prob, Num(18, 10)), Num(85, 100))

_estimate_show_probability(win_prob, field_size) ==
  IF field_size <= 5 THEN NMin(NMul(win_prob, Num(3, 1)), Num(98, 100))
  ELSE IF field_size <= 10 THEN NMin(NMul(win_prob, Num(5, 2)), Num(95, 100))
  ELSE NMin(NMul(win_prob, Num(2, 1)), Num(90, 100))

\* the division prob / total_implied raises when the implied probabilities of
\* a non-empty field sum to zero
calibrate_raises(horses) == horses # <<>> /\ IsZero(total_implied(horses))

\* the calibration with the blended probabilities normalized to sum to 1
calibrate_renormalized(horses) ==
  LET market == normalized_probs(horses)
      blended == [i \in 1..Len(horses) |-> blend(horses[i].win_probability, market[i])]
      total == NSum(blended)
  IN  [i \in 1..Len(horses) |->
        LET calibrated_prob == NDiv(blended[i], total)
        IN  [horses[i] EXCEPT
               !.win_probability = calibrated_prob,
               !.place_probability =
                   _estimate_place_probability(calibrated_prob, Len(horses)),
               !.show_probability =
                   _estimate_show_probability(calibrated_prob, Len(horses))]]

\* calibrated_horse = Horse(...) of the loop, for a horse of the field and
\* its calibrated_prob
calibrated_horse(horse, calibrated_prob, field_size) ==
  [horse EXCEPT
     !.win_probability = calibrated_prob,
     !.place_probability = _estimate_place_probability(calibrated_prob, field_size),
     !.show_probability = _estimate_show_probability(calibrated_prob, field_size)]

calibrate_win_probabilities(horses) ==
  LET market == normalized_probs(horses)
  IN  [i \in 1..Len(horses) |->
        calibrated_horse(horses[i], blend(horses[i].win_probability, market[i]),
                         Len(horses))]

\* the input list after a calibration that assigns the calibrated
\* probabilities to the input Horse objects
horses_calibrated_in_place(horses) ==
  IF calibrate_raises(horses) THEN horses ELSE calibrate_win_probabilities(horses)

\* the input list after calibrate_win_probabilities: the loops only read it,
\* each calibrated_horse is a new Horse(...)
horses_after_calibration(horses) == horses

ids(horses) == [i \in 1..Len(horses) |-> horses[i].id]

win_probabilities(horses) == [i \in 1..Len(horses) |-> horses[i].win_probability]

\* the first k horses of the input, unsorted
first_horses(horses, k) == Prefix(horses, k)

\* sorted(horses, key=lambda h: h.win_probability, reverse=True)[:k]
top_horses(horses, k) ==
  LET order == sorted_reverse(win_probabilities(horses))
  IN  Prefix([r \in 1..Len(horses) |-> horses[order[r]]], k)

\* _calculate_exacta_probabilities: the denominators 1 - p1 + 1e-10
exacta_den(horse1) == NAdd(NSub(One, horse1.win_probability), EPS)

exacta_prob(horses, perm) ==
  LET horse1 == first_with_id(horses, perm[1])
      horse2 == first_with_id(horses, perm[2])
      prob_1st == horse1.win_probability
      prob_2nd_given_1st == NDiv(horse2.win_probability, exacta_den(horse1))
  IN  NMul(prob_1st, prob_2nd_given_1st)

\* the pairs of itertools.product: a horse may follow itself
exacta_keys_with_repeats(horses) ==
  LET n == Len(horses)
  IN  [i \in 1..(n * n) |->
        <<horses[((i - 1) \div n) + 1].id, horses[((i - 1) % n) + 1].id>>]

\* the pairs of the 6 horses of the trifecta pool only
exacta_keys_pruned(horses) == permutations(ids(top_horses(horses, 6)), 2)

exacta_keys(horses) == permutations(ids(horses), 2)

exacta_raises(horses) ==
  LET keys == exacta_keys(horses)
  IN  \E i \in 1..Len(keys) :
        IsZero(exacta_den(first_with_id(horses, keys[i][1])))

\* a mapping is the sequence of its items in insertion order
exacta_items(keys, horses) ==
  [i \in 1..Len(keys) |-> [perm |-> keys[i], prob |-> exacta_prob(horses, keys[i])]]

_calculate_exacta_probabilities(horses) == exacta_items(exacta_keys(horses), horses)

\* _calculate_trifecta_probabilities: the candidate pool, the top 6 horses
trifecta_pool == 6
trifecta_keys(horses) == permutations(ids(top_horses(horses, trifecta_pool)), 3)

\* the denominators 1 - p1 + 1e-10 and remaining_prob + 1e-10
trifecta_den2(horse1) == NAdd(NSub(One, horse1.win_probability), EPS)

\* the third denominator with only the winner taken out of the field
trifecta_den3_winner_only(horse1, horse2) ==
  LET remaining_prob == NSub(One, horse1.win_probability)
  IN  NAdd(remaining_prob, EPS)

trifecta_den3(horse1, horse2) ==
  LET remaining_prob ==
        NSub(NSub(One, horse1.win_probability), horse2.win_probability)
  IN  NAdd(remaining_prob, EPS)

trifecta_prob(horses, perm) ==
  LET horse1 == first_with_id(horses, perm[1])
      horse2 == first_with_id(horses, perm[2])
      horse3 == first_with_id(horses, perm[3])
      prob_1st == horse1.win_probability
      prob_2nd_given_1st == NDiv(horse2.win_probability, trifecta_den2(horse1))
      prob_3rd_given_12 ==
        NDiv(horse3.win_probability, trifecta_den3(horse1, horse2))
  IN  NMul(NMul(prob_1st, prob_2nd_given_1st), prob_3rd_given_12)

trifecta_raises(horses) ==
  LET keys == trifecta_keys(horses)
  IN  \E i \in 1..Len(keys) :
        LET horse1 == first_with_id(horses, keys[i][1])
            horse2 == first_with_id(horses, keys[i][2])
        IN  \/ IsZero(trifecta_den2(horse1))
            \/ IsZero(trifecta_den3(horse1, horse2))

trifecta_items(keys, horses) ==
  [i \in 1..Len(keys) |-> [perm |-> keys[i], prob |-> trifecta_prob(horses, keys[i])]]

_calculate_trifecta_probabilities(horses) ==
  trifecta_items(trifecta_keys(horses), horses)

\* _calculate_superfecta_probabilities: the candidate pool, the top 5 horses,
\* and its arrangements of superfecta_length horses
superfecta_pool == 5
superfecta_length == 4
superfecta_keys(horses) ==
  permutations(ids(top_horses(horses, superfecta_pool)), superfecta_length)

\* remaining_horses.remove(horse): without the first element equal to horse
list_remove(xs, x) ==
  RemoveAt(xs, CHOOSE i \in 1..Len(xs) :
                 xs[i] = x /\ \A j \in 1..(i - 1) : xs[j] # x)

\* sum(h.win_probability for h in remaining_horses)
superfecta_den(remaining_horses) == NSum(win_probabilities(remaining_horses))

\* the loop over the positions of perm: prob so far, the horses not yet placed
RECURSIVE superfecta_loop(_, _, _)
superfecta_loop(prob, remaining_horses, perm) ==
  IF perm = <<>> THEN prob
  ELSE LET horse == first_with_id(remaining_horses, Head(perm))
           position_prob ==
             NDiv(horse.win_probability, superfecta_den(remaining_horses))
       IN  superfecta_loop(NMul(prob, position_prob),
                           list_remove(remaining_horses, horse), Tail(perm))

\* the loop started from the candidate pool in the place of the whole field
superfecta_prob_in_pool(horses, perm) ==
  superfecta_loop(One, top_horses(horses, 5), perm)

superfecta_prob(horses, perm) == superfecta_loop(One, horses, perm)

RECURSIVE superfecta_loop_raises(_, _)
superfecta_loop_raises(remaining_horses, perm) ==
  IF perm = <<>> THEN FALSE
  ELSE \/ IsZero(superfecta_den(remaining_horses))
       \/ superfecta_loop_raises(
            list_remove(remaining_horses,
                        first_with_id(remaining_horses, Head(perm))), Tail(perm))

superfecta_raises(horses) ==
  LET keys == superfecta_keys(horses)
  IN  \E i \in 1..Len(keys) : superfecta_loop_raises(horses, keys[i])

\* the input list after _calculate_superfecta_probabilities: sorted(...)
\* builds a new list and remaining_horses = list(horses) is a copy, so the
\* removals leave the input as it was
horses_after_superfecta(horses) == horses

superfecta_items(keys, horses) ==
  [i \in 1..Len(keys) |->
     [perm |-> keys[i], prob |-> superfecta_prob(horses, keys[i])]]

_calculate_superfecta_probabilities(horses) ==
  superfecta_items(superfecta_keys(horses), horses)

\* -------------------------------------------- ExoticCombinationGenerator

min_probability_threshold == Num(1, 1000)

\* np.prod of the odds of the horses of the combination
RECURSIVE odds_product(_, _)
odds_product(combination, horses) ==
  IF combination = <<>> THEN One
  ELSE NMul(first_with_id(horses, Head(combination)).odds,
            odds_product(Tail(combination), horses))

\* the exacta payout without the minimum return
exacta_payout_unfloored(combination, horses) ==
  NMul(odds_product(combination, horses), Num(8, 10))

_estimate_exacta_payout(combination, horses) ==
  NMax(NMul(odds_product(combination, horses), Num(8, 10)), Num(2, 1))

_estimate_trifecta_payout(combination, horses) ==
  NMax(NMul(odds_product(combination, horses), Num(75, 100)), Num(5, 1))

_estimate_superfecta_payout(combination, horses) ==
  NMax(NMul(odds_product(combination, horses), Num(7, 10)), Num(10, 1))

max_kelly == Num(25, 100)

\* the Kelly fraction without the cap max_kelly
kelly_fraction_uncapped(probability, odds) ==
  IF NLe(odds, One) THEN Zero
  ELSE LET b == NSub(odds, One)
           p == probability
           q == NSub(One, p)
       IN  NMax(Zero, NDiv(NSub(NMul(b, p), q), b))

_calculate_kelly_fraction(probability, odds) ==
  IF NLe(odds, One) THEN Zero
  ELSE LET b == NSub(odds, One)
           p == probability
           q == NSub(One, p)
           kelly == NDiv(NSub(NMul(b, p), q), b)
       IN  NMax(Zero, NMin(kelly, max_kelly))

\* np.mean of a rating over the horses of the combination
mean_rating(ratings) == NDiv(NSum(ratings), Num(Len(ratings), 1))

_calculate_confidence_score(combination, horses, probability) ==
  LET combo_horses ==
        [i \in 1..Len(combination) |-> first_with_id(horses, combination[i])]
      avg_form == mean_rating([i \in 1..Len(combination) |-> combo_horses[i].form_rating])
      avg_speed == mean_rating([i \in 1..Len(combination) |-> combo_horses[i].speed_rating])
      prob_factor ==
        NDiv(NMin(NMul(probability, Num(100, 1)), Num(10, 1)), Num(10, 1))
      avg_class == mean_rating([i \in 1..Len(combination) |-> combo_horses[i].class_rating])
      confidence ==
        NDiv(NAdd(NAdd(NAdd(NMul(Num(3, 10), avg_form),
                            NMul(Num(25, 100), avg_speed)),
                       NMul(Num(25, 100), prob_factor)),
                  NMul(Num(2, 10), avg_class)),
             Num(100, 1))
  IN  NMin(NMax(confidence, Zero), One)

\* the ExoticBet built in the body of a generator's loop
ExoticBet(bet_type, combination, probability, payout_odds, horses) ==
  [bet_type |-> bet_type,
   combination |-> combination,
   probability |-> probability,
   payout_odds |-> payout_odds,
   expected_value |-> NSub(NMul(probability, payout_odds), One),
   kelly_fraction |-> _calculate_kelly_fraction(probability, payout_odds),
   confidence_score |-> _calculate_confidence_score(combination, horses, probability)]

\* every item of a mapping, whatever its probability
surviving_unfiltered(probs) == probs

\* the items of a mapping that pass "if probability < threshold: continue"
surviving(probs) ==
  SelectSeq(probs, LAMBDA item : ~NLt(item.prob, min_probability_threshold))

expected_values(bets) == [i \in 1..Len(bets) |-> bets[i].expected_value]

\* the first max_combinations bets in the order of the mapping, unsorted
first_bets(bets, max_combinations) == Prefix(bets, max_combinations)

\* bets.sort(key=lambda bet: bet.expected_value, reverse=True); bets[:max]
top_by_expected_value(bets, max_combinations) ==
  LET order == sorted_reverse(expected_values(bets))
  IN  Prefix([r \in 1..Len(bets) |-> bets[order[r]]], max_combinations)

\* the bets a generator's loop builds from the items of its mapping
exacta_bets_from(items, horses) ==
  [i \in 1..Len(items) |->
     ExoticBet("exacta", items[i].perm, items[i].prob,
               _estimate_exacta_payout(items[i].perm, horses), horses)]

trifecta_bets_from(items, horses) ==
  [i \in 1..Len(items) |->
     ExoticBet("trifecta", items[i].perm, items[i].prob,
               _estimate_trifecta_payout(items[i].perm, horses), horses)]

superfecta_bets_from(items, horses) ==
  [i \in 1..Len(items) |->
     ExoticBet("superfecta", items[i].perm, items[i].prob,
               _estimate_superfecta_payout(items[i].perm, horses), horses)]

generate_exacta_combinations(horses, max_combinations) ==
  top_by_expected_value(
    exacta_bets_from(surviving(_calculate_exacta_probabilities(horses)), horses),
    max_combinations)

generate_trifecta_combinations(horses, max_combinations) ==
  top_by_expected_value(
    trifecta_bets_from(surviving(_calculate_trifecta_probabilities(horses)), horses),
    max_combinations)

generate_superfecta_combinations(horses, max_combinations) ==
  top_by_expected_value(
    superfecta_bets_from(surviving(_calculate_superfecta_probabilities(horses)),
                         horses),
    max_combinations)

\* ------------------------------------------------------ EVSignalGenerator

default_min_ev_threshold == Num(5, 100)
bankroll == Num(1000, 1)

_calculate_signal_strength(bet) ==
  LET ev_component == NMin(NMul(bet.expected_value, Num(2, 1)), One)
      confidence_component == bet.confidence_score
      kelly_component == NMin(NMul(bet.kelly_fraction, Num(4, 1)), One)
  IN  NAdd(NAdd(NMul(Num(4, 10), ev_component),
                NMul(Num(35, 100), confidence_component)),
           NMul(Num(25, 100), kelly_component))

_assess_risk_level(bet) ==
  IF NLt(Num(1, 10), bet.probability) THEN "LOW"
  ELSE IF NLt(Num(5, 100), bet.probability) THEN "MEDIUM"
  ELSE IF NLt(Num(1, 100), bet.probability) THEN "HIGH"
  ELSE "VERY_HIGH"

\* the stake held under max_per_bet_exposure = 100 of the configuration
recommended_stake_within_exposure(bet) ==
  NMin(NMul(bankroll, bet.kelly_fraction), Num(100, 1))

_calculate_recommended_stake(bet) == NMul(bankroll, bet.kelly_fraction)

\* the filter with >= in the place of >
positive_ev_bets_inclusive(exotic_bets, threshold) ==
  SelectSeq(exotic_bets, LAMBDA bet : NLe(threshold, bet.expected_value))

\* [bet for bet in exotic_bets if bet.expected_value > self.min_ev_threshold]
positive_ev_bets(exotic_bets, threshold) ==
  SelectSeq(exotic_bets, LAMBDA bet : NLt(threshold, bet.expected_value))

\* the signal built for a bet (its timestamp is left out)
Signal(bet) ==
  [bet_type |-> bet.bet_type,
   combination |-> bet.combination,
   probability |-> bet.probability,
   expected_value |-> bet.expected_value,
   kelly_fraction |-> bet.kelly_fraction,
   confidence_score |-> bet.confidence_score,
   signal_strength |-> _calculate_signal_strength(bet),
   risk_level |-> _assess_risk_level(bet),
   recommended_stake |-> _calculate_recommended_stake(bet)]

signal_strengths(signals) == [i \in 1..Len(signals) |-> signals[i].signal_strength]

\* the signals in the order of the bets, without signals.sort(...)
signals_of(bets) == [i \in 1..Len(bets) |-> Signal(bets[i])]

generate_ev_signals_unsorted(exotic_bets, threshold) ==
  signals_of(positive_ev_bets(exotic_bets, threshold))

\* signals.sort(key=lambda s: s['signal_strength'], reverse=True)
sorted_by_strength(signals) ==
  LET order == sorted_reverse(signal_strengths(signals))
  IN  [r \in 1..Len(signals) |-> signals[order[r]]]

\* the list generate_ev_signals returns under the threshold
generate_ev_signals(exotic_bets, threshold) ==
  sorted_by_strength(signals_of(positive_ev_bets(exotic_bets, threshold)))

\* self.signal_history = signals, in the place of extend
replace_history(signal_history, signals) == signals

\* self.signal_history.extend(signals)
extend_history(signal_history, signals) == signal_history \o signals

\* sorted(self.signal_history, key=lambda s: s['signal_strength'],
\*        reverse=True)[:n], for n >= 0
get_top_signals(signal_history, n) ==
  LET order == sorted_reverse(signal_strengths(signal_history))
  IN  Prefix([r \in 1..Len(signal_history) |-> signal_history[order[r]]], n)

\* ----------------------------------------------------------------- inputs

MaxField == 7

\* what a request supplies for a horse: the model's win probability, the odds
\* and the three ratings (the defaults of the API are 75.0, 80.0, 75.0)
Kind(win_probability, odds, form_rating, speed_rating, class_rating) ==
  [win_probability |-> win_probability, odds |-> odds,
   form_rating |-> form_rating, speed_rating |-> speed_rating,
   class_rating |-> class_rating]

Rated(win_probability, odds) ==
  Kind(win_probability, odds, Num(75, 1), Num(80, 1), Num(75, 1))

\* regular horses: odds 2.0 and 4.0, win probabilities in [0, 1]
Favourite == Kind(Num(4, 7), Num(2, 1), Num(85, 1), Num(92, 1), Num(88, 1))
Contender == Rated(Num(2, 7), Num(4, 1))
Outsider == Rated(Num(1, 7), Num(4, 1))
RegularKinds == {Favourite, Contender, Outsider}

\* level fields (all odds 3.0) with the boundary win probabilities 1 and 0,
\* and with 4/7 and 4/7 + (10/7)*1e-10
Certain == Rated(Num(1, 1), Num(3, 1))
Hopeless == Rated(Num(0, 1), Num(3, 1))
Even == Rated(Num(4, 7), Num(3, 1))
EvenPlus == Rated(<<RZero, Rat(4, 7), Rat(10, 7)>>, Num(3, 1))
LevelKinds == {Certain, Hopeless, Even, EvenPlus}

\* what a request may also carry: odds <= 0 (each implies 0.01) and win
\* probabilities outside [0, 1]
Void == Rated(Num(2, 7), Num(0, 1))
Above == Rated(Num(10, 7), Num(-2, 1))
Below == Rated(Num(-2, 7), Num(4, 1))
UntrustedKinds == {Void, Above, Below}

\* the identifier of the horse at position i: distinct, not the position
HorseId(i) == 20 - i

Horse(i, kind) ==
  [id |-> HorseId(i), name |-> i,
   win_probability |-> kind.win_probability,
   place_probability |-> Num(2, 10), show_probability |-> Num(3, 10),
   odds |-> kind.odds, jockey |-> "Unknown", trainer |-> "Unknown",
   form_rating |-> kind.form_rating, speed_rating |-> kind.speed_rating,
   class_rating |-> kind.class_rating]

RacesOver(kinds, lo, hi) ==
  UNION {{[i \in 1..n |-> Horse(i, ks[i])] : ks \in [1..n -> kinds]} : n \in lo..hi}

\* larger fields on which the upstream model agrees with the market: the horse
\* of weight c has odds 4/c (4.0 or 2.0) and the win probability c / (the sum
\* of the weights), which is its normalized implied probability
RECURSIVE SumOf(_)
SumOf(cs) == IF cs = <<>> THEN 0 ELSE Head(cs) + SumOf(Tail(cs))

ConsensusRace(cs) ==
  [i \in 1..Len(cs) |-> Horse(i, Rated(Num(cs[i], SumOf(cs)), Num(4, cs[i])))]

ConsensusRaces(lo, hi) ==
  UNION {{ConsensusRace(cs) : cs \in [1..n -> {1, 2}]} : n \in lo..hi}

\* the three families of kinds on fields too short for a superfecta, and the
\* consensus fields from the shortest superfecta field up to MaxField
Races ==
  RacesOver(RegularKinds, 0, superfecta_length - 1)
    \cup RacesOver(LevelKinds, 1, superfecta_length - 1)
    \cup RacesOver(UntrustedKinds, 1, superfecta_length - 1)
    \cup ConsensusRaces(superfecta_length, MaxField)

\* ------------------------------------------------------------------ state

VARIABLES
  horses,             \* the horse list of the request
  pc,                 \* the last step that ran
  error,              \* "" or the exception the last step raised
  calibrated_horses,  \* the result of calibrate_win_probabilities
  joint_probs,        \* the result of calculate_joint_probabilities
  exacta_bets,        \* the results of the three generators
  trifecta_bets,
  superfecta_bets,
  ev_signals,         \* the result of generate_ev_signals
  min_ev_threshold,   \* EVSignalGenerator.min_ev_threshold
  signal_history,     \* EVSignalGenerator.signal_history
  kelly_args,         \* the arguments of a call of _calculate_kelly_fraction
  kelly_fraction,     \* and the value it returned
  returned,           \* what the calls of generate_ev_signals returned, in order
  top_call,           \* the last call of get_top_signals: n and its result
  requests,           \* the /optimize requests of the server, by request
  reply,              \* a request to an endpoint and the reply to it
  results,            \* the report optimize_exotic_bets returned
  config              \* config.optimization of server/exotic_betting/config.py

vars == <<horses, pc, error, calibrated_horses, joint_probs, exacta_bets,
          trifecta_bets, superfecta_bets, ev_signals, min_ev_threshold,
          signal_history, kelly_args, kelly_fraction, returned, top_call,
          requests, reply, results, config>>

kelly_vars == <<kelly_args, kelly_fraction>>
history_vars == <<returned, top_call>>
server_vars == <<requests, reply>>

NoTopCall == [n |-> 0, result |-> <<>>]

MaxRequests == 2
NoReply == [endpoint |-> "", bet_type |-> "", data |-> <<>>, status |-> 0,
            error |-> "", field |-> ""]
Idle == [pc |-> "idle", horses |-> <<>>, options |-> <<>>, ev_signals |-> <<>>,
         response |-> <<>>]

\* OptimizationConfig as ConfigManager loads it with no environment variable set
DefaultConfig ==
  [min_ev_threshold |-> Num(5, 100), max_kelly_fraction |-> Num(25, 100),
   max_exacta_combinations |-> 20, max_trifecta_combinations |-> 15,
   max_superfecta_combinations |-> 10]

NoJointProbs == [exacta |-> <<>>, trifecta |-> <<>>, superfecta |-> <<>>]

\* nothing computed yet
Fresh ==
  /\ error = ""
  /\ calibrated_horses = <<>>
  /\ joint_probs = NoJointProbs
  /\ ev_signals = <<>>
  /\ signal_history = <<>>
  /\ kelly_fraction = Zero
  /\ returned = <<>>
  /\ config = DefaultConfig
  /\ top_call = NoTopCall
  /\ requests = [r \in 1..MaxRequests |-> Idle]
  /\ reply = NoReply
  /\ results = <<>>

\* ExoticBetOptimizer.__init__ and a request's horse list
InitRace ==
  /\ horses \in Races
  /\ pc = "start"
  /\ exacta_bets = <<>>
  /\ trifecta_bets = <<>>
  /\ superfecta_bets = <<>>
  /\ min_ev_threshold = default_min_ev_threshold
  /\ kelly_args = <<>>
  /\ Fresh

\* the arguments of a call of _calculate_kelly_fraction: probabilities in steps
\* of 1/ProbSteps from below 0 to above 1, payouts in halves from -1 to
\* MaxPayout and the payout 1 + EPS
ProbSteps == 8
MaxPayout == 6
KellyProbabilities == {Num(k, ProbSteps) : k \in (-2)..(ProbSteps + 2)}
KellyPayouts == {Num(j, 2) : j \in (-2)..(2 * MaxPayout)} \cup {NAdd(One, EPS)}

InitKelly ==
  /\ horses = <<>>
  /\ pc = "kelly"
  /\ exacta_bets = <<>>
  /\ trifecta_bets = <<>>
  /\ superfecta_bets = <<>>
  /\ min_ev_threshold = default_min_ev_threshold
  /\ kelly_args \in [probability : KellyProbabilities, odds : KellyPayouts]
  /\ Fresh

Init == InitRace \/ InitKelly

\* calibrated_horses = self.calibrator.calibrate_win_probabilities(horses)
Calibrate ==
  /\ pc = "start" /\ error = ""
  /\ pc' = "calibrated"
  /\ IF calibrate_raises(horses)
     THEN error' = "ZeroDivisionError" /\ UNCHANGED calibrated_horses
     ELSE error' = "" /\ calibrated_horses' = calibrate_win_probabilities(horses)
  /\ horses' = horses_after_calibration(horses)
  /\ UNCHANGED <<joint_probs, exacta_bets, trifecta_bets,
                 superfecta_bets, ev_signals, min_ev_threshold, signal_history,
                 kelly_vars, history_vars, server_vars,
                 results, config>>

\* ProbabilityCalibrator.calculate_joint_probabilities(calibrated_horses)
CalculateJointProbabilities ==
  /\ pc = "calibrated" /\ error = ""
  /\ pc' = "joint"
  /\ IF \/ exacta_raises(calibrated_horses)
        \/ trifecta_raises(calibrated_horses)
        \/ superfecta_raises(calibrated_horses)
     THEN error' = "ZeroDivisionError" /\ UNCHANGED joint_probs
     ELSE /\ error' = ""
          /\ joint_probs' =
               [exacta |-> _calculate_exacta_probabilities(calibrated_horses),
                trifecta |-> _calculate_trifecta_probabilities(calibrated_horses),
                superfecta |-> _calculate_superfecta_probabilities(calibrated_horses)]
  /\ UNCHANGED <<horses, calibrated_horses, exacta_bets, trifecta_bets,
                 superfecta_bets, ev_signals, min_ev_threshold, signal_history,
                 kelly_vars, history_vars, server_vars,
                 results, config>>

\* exacta_bets = ...generate_exacta_combinations(calibrated_horses)
GenerateExacta ==
  /\ pc = "calibrated" /\ error = ""
  /\ pc' = "exacta"
  /\ IF exacta_raises(calibrated_horses)
     THEN error' = "ZeroDivisionError" /\ UNCHANGED exacta_bets
     ELSE /\ error' = ""
          /\ exacta_bets' = generate_exacta_combinations(calibrated_horses, 20)
  /\ UNCHANGED <<horses, calibrated_horses, joint_probs, trifecta_bets,
                 superfecta_bets, ev_signals, min_ev_threshold, signal_history,
                 kelly_vars, history_vars, server_vars,
                 results, config>>

\* trifecta_bets = ...generate_trifecta_combinations(calibrated_horses)
GenerateTrifecta ==
  /\ pc = "exacta" /\ error = ""
  /\ pc' = "trifecta"
  /\ IF trifecta_raises(calibrated_horses)
     THEN error' = "ZeroDivisionError" /\ UNCHANGED trifecta_bets
     ELSE /\ error' = ""
          /\ trifecta_bets' = generate_trifecta_combinations(calibrated_horses, 15)
  /\ UNCHANGED <<horses, calibrated_horses, joint_probs, exacta_bets,
                 superfecta_bets, ev_signals, min_ev_threshold, signal_history,
                 kelly_vars, history_vars, server_vars,
                 results, config>>

\* superfecta_bets = ...generate_superfecta_combinations(calibrated_horses)
GenerateSuperfecta ==
  /\ pc = "trifecta" /\ error = ""
  /\ pc' = "superfecta"
  /\ IF superfecta_raises(calibrated_horses)
     THEN error' = "ZeroDivisionError" /\ UNCHANGED superfecta_bets
     ELSE /\ error' = ""
          /\ superfecta_bets' = generate_superfecta_combinations(calibrated_horses, 10)
  /\ calibrated_horses' = horses_after_superfecta(calibrated_horses)
  /\ UNCHANGED <<horses, joint_probs, exacta_bets,
                 trifecta_bets, ev_signals, min_ev_threshold, signal_history,
                 kelly_vars, history_vars, server_vars,
                 results, config>>

all_exotic_bets == exacta_bets \o trifecta_bets \o superfecta_bets

\* ev_signals = self.signal_generator.generate_ev_signals(all_exotic_bets)
GenerateEvSignals ==
  /\ pc = "superfecta" /\ error = ""
  /\ pc' = "signals"
  /\ ev_signals' = generate_ev_signals(all_exotic_bets, min_ev_threshold)
  /\ signal_history' = extend_history(signal_history, ev_signals')
  /\ returned' = Append(returned, ev_signals')
  /\ UNCHANGED <<horses, error, calibrated_horses, joint_probs, exacta_bets,
                 trifecta_bets, superfecta_bets, min_ev_threshold,
                 kelly_vars, top_call, server_vars,
                 results, config>>

\* the mean, as np.mean of the line above it, in the place of the sum
mean_kelly_allocation(all_bets) ==
  NDiv(NSum([i \in 1..Len(all_bets) |->
              IF NLt(Zero, all_bets[i].expected_value)
              THEN all_bets[i].kelly_fraction ELSE Zero]),
       Num(Len(all_bets), 1))

\* sum(bet.kelly_fraction for bet in all_bets if bet.expected_value > 0)
total_kelly_allocation(all_bets) ==
  NSum([i \in 1..Len(all_bets) |->
         IF NLt(Zero, all_bets[i].expected_value)
         THEN all_bets[i].kelly_fraction ELSE Zero])

\* np.max(expected_values)
np_max(values) ==
  CHOOSE x \in Range(values) : \A y \in Range(values) : NLe(y, x)

\* ExoticBetOptimizer._calculate_summary_stats: {} when there is no bet
_calculate_summary_stats(all_bets, signals) ==
  IF all_bets = <<>> THEN <<>>
  ELSE LET bet_values == expected_values(all_bets)
       IN  [total_combinations_analyzed |-> Len(all_bets),
            profitable_opportunities |-> Len(signals),
            profitability_rate |-> Num(Len(signals), Len(all_bets)),
            average_expected_value |-> NDiv(NSum(bet_values), Num(Len(all_bets), 1)),
            max_expected_value |-> np_max(bet_values),
            total_kelly_allocation |-> total_kelly_allocation(all_bets)]

top_opportunities_length == 10

\* the results dict of optimize_exotic_bets (its timestamp left out)
compile_results(request_horses, calibrated, exactas, trifectas, superfectas, signals) ==
  [total_horses |-> Len(request_horses),
   calibrated_horses |->
     [i \in 1..Len(calibrated) |->
       [id |-> calibrated[i].id, name |-> calibrated[i].name,
        calibrated_win_prob |-> calibrated[i].win_probability,
        place_prob |-> calibrated[i].place_probability,
        show_prob |-> calibrated[i].show_probability]],
   exotic_combinations |->
     [exacta |-> Len(exactas), trifecta |-> Len(trifectas),
      superfecta |-> Len(superfectas)],
   profitable_signals |-> Len(signals),
   top_opportunities |-> Prefix(signals, top_opportunities_length),
   summary_stats |->
     _calculate_summary_stats(exactas \o trifectas \o superfectas, signals)]

\* results = {...}; return results
CompileResults ==
  /\ pc = "signals" /\ error = ""
  /\ pc' = "done"
  /\ results' = compile_results(horses, calibrated_horses, exacta_bets,
                                trifecta_bets, superfecta_bets, ev_signals)
  /\ UNCHANGED <<horses, error, calibrated_horses, joint_probs, exacta_bets,
                 trifecta_bets, superfecta_bets, ev_signals, min_ev_threshold,
                 signal_history, kelly_vars, history_vars, server_vars,
                 config>>

\* a call of _calculate_kelly_fraction(probability, odds)
CalculateKellyFraction ==
  /\ pc = "kelly"
  /\ pc' = "kelly_done"
  /\ kelly_fraction' = _calculate_kelly_fraction(kelly_args.probability, kelly_args.odds)
  /\ UNCHANGED <<horses, error, calibrated_horses, joint_probs, exacta_bets,
                 trifecta_bets, superfecta_bets, ev_signals, min_ev_threshold,
                 signal_history, kelly_args, history_vars, server_vars,
                 results, config>>

Next ==
  \/ Calibrate
  \/ CalculateJointProbabilities
  \/ GenerateExacta
  \/ GenerateTrifecta
  \/ GenerateSuperfecta
  \/ GenerateEvSignals
  \/ CompileResults
  \/ CalculateKellyFraction

Spec == Init /\ [][Next]_vars

\* ------------------------------------------- generate_ev_signals on its own

\* a bet of probability and payout as a generator builds it, on a two-horse
\* race of default ratings
SignalRace == [i \in 1..2 |-> Horse(i, Rated(Num(1, 2), Num(2, 1)))]

DrawnBet(probability, payout_odds) ==
  ExoticBet("exacta", ids(SignalRace), probability, payout_odds, SignalRace)

\* expected values -0.5, 0, 0.05, 0.2 and 0.5
DrawnBets ==
  {DrawnBet(Num(1, 20), Num(10, 1)), DrawnBet(Num(1, 2), Num(2, 1)),
   DrawnBet(Num(3, 20), Num(7, 1)), DrawnBet(Num(3, 20), Num(8, 1)),
   DrawnBet(Num(1, 4), Num(6, 1))}

\* the thresholds a generator is built with or the API sets
Thresholds == {Num(-1, 1), Zero, default_min_ev_threshold, Num(2, 10)}

MaxBets == 3

InitSignals ==
  /\ horses = <<>>
  /\ pc = "superfecta"
  /\ exacta_bets \in UNION {[1..n -> DrawnBets] : n \in 0..MaxBets}
  /\ trifecta_bets = <<>>
  /\ superfecta_bets = <<>>
  /\ min_ev_threshold \in Thresholds
  /\ kelly_args = <<>>
  /\ Fresh

NextSignals == GenerateEvSignals

SpecSignals == InitSignals /\ [][NextSignals]_vars

\* ------------------------------- the signal history over several calls

MaxCalls == 2
MaxCallBets == 2
MaxTop == 3

InitHistory ==
  /\ horses = <<>>
  /\ pc = "generator"
  /\ exacta_bets = <<>>
  /\ trifecta_bets = <<>>
  /\ superfecta_bets = <<>>
  /\ min_ev_threshold = default_min_ev_threshold
  /\ kelly_args = <<>>
  /\ Fresh

\* a call generate_ev_signals(exotic_bets) on a drawn list of bets
CallGenerateEvSignals ==
  /\ pc \in {"generator", "signals", "top"}
  /\ Len(returned) < MaxCalls
  /\ pc' = "signals"
  /\ \E exotic_bets \in UNION {[1..n -> DrawnBets] : n \in 0..MaxCallBets} :
       ev_signals' = generate_ev_signals(exotic_bets, min_ev_threshold)
  /\ signal_history' = extend_history(signal_history, ev_signals')
  /\ returned' = Append(returned, ev_signals')
  /\ UNCHANGED <<horses, error, calibrated_horses, joint_probs, exacta_bets,
                 trifecta_bets, superfecta_bets, min_ev_threshold, kelly_vars,
                 top_call, server_vars,
                 results, config>>

\* a call get_top_signals(n)
GetTopSignals ==
  /\ pc \in {"generator", "signals"}
  /\ pc' = "top"
  /\ \E n \in 0..MaxTop :
       top_call' = [n |-> n, result |-> get_top_signals(signal_history, n)]
  /\ UNCHANGED <<horses, error, calibrated_horses, joint_probs, exacta_bets,
                 trifecta_bets, superfecta_bets, ev_signals, min_ev_threshold,
                 signal_history, kelly_vars, returned, server_vars,
                 results, config>>

NextHistory == CallGenerateEvSignals \/ GetTopSignals

SpecHistory == InitHistory /\ [][NextHistory]_vars

\* ------------------------------------- the arithmetic of a bet in floats

\* the significant bits of a float of the model (53 in the program)
MantissaBits == 4

RECURSIVE Pow2(_)
Pow2(k) == IF k = 0 THEN 1 ELSE 2 * Pow2(k - 1)

\* the power of two P with P <= a < 2 P, for a rational a > 0, from P on
RECURSIVE binade(_, _)
binade(a, P) ==
  IF RLt(a, P) THEN binade(a, RDiv(P, <<2, 1>>))
  ELSE IF ~RLt(a, RMul(P, <<2, 1>>)) THEN binade(a, RMul(P, <<2, 1>>))
  ELSE P

\* a rational a > 0 rounded to the nearest float, ties to the even mantissa
round_positive(a) ==
  LET ulp == RDiv(binade(a, ROne), <<Pow2(MantissaBits - 1), 1>>)
      scaled == RDiv(a, ulp)
      below == scaled[1] \div scaled[2]
      rest == scaled[1] % scaled[2]
      mantissa == IF 2 * rest > scaled[2] \/ (2 * rest = scaled[2] /\ below % 2 = 1)
                  THEN below + 1 ELSE below
  IN  RMul(<<mantissa, 1>>, ulp)

\* the float nearest to a rational number
float(x) ==
  IF x[2] = RZero THEN x
  ELSE IF x[2][1] < 0 THEN <<RZero, RNeg(round_positive(RNeg(x[2]))), RZero>>
  ELSE <<RZero, round_positive(x[2]), RZero>>

\* expected_value = (probability * payout_odds) - 1.0, each operation rounded
expected_value_float(probability, payout_odds) ==
  float(NSub(float(NMul(probability, payout_odds)), One))

\* _calculate_kelly_fraction(probability, odds), each operation rounded
_calculate_kelly_fraction_float(probability, odds) ==
  IF NLe(odds, One) THEN Zero
  ELSE LET b == float(NSub(odds, One))
           p == probability
           q == float(NSub(One, p))
           kelly == float(NDiv(float(NSub(float(NMul(b, p)), q)), b))
       IN  NMax(Zero, NMin(kelly, max_kelly))

\* the floats with the exponents lo..hi, as numbers
Floats(lo, hi) ==
  {Num(n * Pow2(e - lo), Pow2(MantissaBits - 1) * Pow2(0 - lo))
     : n \in Pow2(MantissaBits - 1)..(Pow2(MantissaBits) - 1), e \in lo..hi}

\* the joint probabilities from 1/16 up to 1 and the payouts from 2 up to 16
FloatProbabilities == Floats(-4, -1)
FloatPayouts == {x \in Floats(-4, 3) : NLe(Num(2, 1), x)}

\* a combination with its probability and its estimated payout, before the
\* generator computes the bet
InitFloats ==
  /\ horses = <<>>
  /\ pc = "combination"
  /\ exacta_bets = <<>>
  /\ trifecta_bets = <<>>
  /\ superfecta_bets = <<>>
  /\ min_ev_threshold = default_min_ev_threshold
  /\ kelly_args \in [probability : FloatProbabilities, odds : FloatPayouts]
  /\ Fresh

\* the body of the loop of generate_exacta_combinations for the combination:
\* expected_value, kelly_fraction, and the bet appended to exacta_bets
AppendExactaBet ==
  /\ pc = "combination"
  /\ pc' = "bet"
  /\ ~NLt(kelly_args.probability, min_probability_threshold)
  /\ kelly_fraction' =
       _calculate_kelly_fraction_float(kelly_args.probability, kelly_args.odds)
  /\ exacta_bets' =
       <<[bet_type |-> "exacta",
          combination |-> <<HorseId(1), HorseId(2)>>,
          probability |-> kelly_args.probability,
          payout_odds |-> kelly_args.odds,
          expected_value |->
            expected_value_float(kelly_args.probability, kelly_args.odds),
          kelly_fraction |-> kelly_fraction',
          confidence_score |-> Zero]>>
  /\ UNCHANGED <<horses, error, calibrated_horses, joint_probs, trifecta_bets,
                 superfecta_bets, ev_signals, min_ev_threshold, signal_history,
                 kelly_args, history_vars, server_vars, results, config>>

NextFloats == AppendExactaBet

SpecFloats == InitFloats /\ [][NextFloats]_vars

\* ------------------------------------ calibration called more than once

\* a second call calibrate_win_probabilities(horses) on the same input
CalibrateAgain ==
  /\ pc = "calibrated" /\ error = ""
  /\ pc' = "again"
  /\ calibrated_horses' = calibrate_win_probabilities(horses)
  /\ horses' = horses_after_calibration(horses)
  /\ UNCHANGED <<error, joint_probs, exacta_bets, trifecta_bets,
                 superfecta_bets, ev_signals, min_ev_threshold, signal_history,
                 kelly_vars, history_vars, server_vars, results, config>>

\* calibrate_win_probabilities(calibrated_horses), on its own output; the
\* output has the odds of the input, so it raises on no output
Recalibrate ==
  /\ pc = "calibrated" /\ error = ""
  /\ pc' = "recalibrated"
  /\ calibrated_horses' = calibrate_win_probabilities(calibrated_horses)
  /\ UNCHANGED <<horses, error, joint_probs, exacta_bets, trifecta_bets,
                 superfecta_bets, ev_signals, min_ev_threshold, signal_history,
                 kelly_vars, history_vars, server_vars, results, config>>

NextRecalibration == Calibrate \/ CalibrateAgain \/ Recalibrate

SpecRecalibration == InitRace /\ [][NextRecalibration]_vars

\* ------------------------------- the configuration and the Kelly cap

\* ENVIRONMENTS of config.py, the optimization keys of each environment
ENVIRONMENTS ==
  [development |-> [min_ev_threshold |-> Num(3, 100)],
   testing |-> [min_ev_threshold |-> Num(1, 100)],
   production |-> [min_ev_threshold |-> Num(8, 100),
                   max_kelly_fraction |-> Num(15, 100)]]

\* config.optimization after load_environment_config(env)
load_environment_config(optimization, env) ==
  LET env_config == ENVIRONMENTS[env]
  IN  [key \in DOMAIN optimization |->
        IF key \in DOMAIN env_config THEN env_config[key] ELSE optimization[key]]

\* the configuration as loaded, or about to be changed for an environment,
\* before a call of _calculate_kelly_fraction
InitConfig ==
  /\ horses = <<>>
  /\ pc \in {"config", "kelly"}
  /\ exacta_bets = <<>>
  /\ trifecta_bets = <<>>
  /\ superfecta_bets = <<>>
  /\ min_ev_threshold = default_min_ev_threshold
  /\ kelly_args \in [probability : KellyProbabilities, odds : KellyPayouts]
  /\ Fresh

LoadEnvironmentConfig ==
  /\ pc = "config"
  /\ pc' = "kelly"
  /\ \E env \in DOMAIN ENVIRONMENTS :
       config' = load_environment_config(config, env)
  /\ UNCHANGED <<horses, error, calibrated_horses, joint_probs, exacta_bets,
                 trifecta_bets, superfecta_bets, ev_signals, min_ev_threshold,
                 signal_history, kelly_vars, history_vars, server_vars,
                 results>>

NextConfig == LoadEnvironmentConfig \/ CalculateKellyFraction

SpecConfig == InitConfig /\ [][NextConfig]_vars

\* ------------------------------------------ the /optimize endpoint

\* the races of the requests: two regular horses
RequestRaces == RacesOver(RegularKinds, 2, 2)

\* the options of a request: none, or a min_ev_threshold
RequestThresholds == {Zero, Num(1, 2)}
RequestOptions ==
  {<<>>} \cup {[min_ev_threshold |-> t] : t \in RequestThresholds}

\* steps 1 and 2 of optimize_exotic_bets: the bets of a horse list
exotic_bets_of(request_horses) ==
  LET calibrated == calibrate_win_probabilities(request_horses)
  IN  generate_exacta_combinations(calibrated, 20)
        \o generate_trifecta_combinations(calibrated, 15)
        \o generate_superfecta_combinations(calibrated, 10)

\* the handler parses the horses and the options and stores a supplied
\* min_ev_threshold on the signal generator of the module-level optimizer
Receive(r) ==
  /\ requests[r].pc = "idle"
  /\ \E request_horses \in RequestRaces : \E options \in RequestOptions :
       /\ requests' = [requests EXCEPT ![r] =
            [@ EXCEPT !.pc = "received", !.horses = request_horses,
                      !.options = options]]
       /\ min_ev_threshold' =
            IF "min_ev_threshold" \in DOMAIN options
            THEN options.min_ev_threshold ELSE min_ev_threshold
  /\ UNCHANGED <<horses, pc, error, calibrated_horses, joint_probs, exacta_bets,
                 trifecta_bets, superfecta_bets, ev_signals, signal_history,
                 kelly_vars, history_vars, reply,
                 results, config>>

\* optimize_exotic_bets up to the sorted signals of generate_ev_signals, which
\* reads self.min_ev_threshold
Filter(r) ==
  /\ requests[r].pc = "received"
  /\ requests' = [requests EXCEPT ![r] =
       [@ EXCEPT !.pc = "filtered",
                 !.ev_signals = generate_ev_signals(exotic_bets_of(requests[r].horses),
                                                    min_ev_threshold)]]
  /\ UNCHANGED <<horses, pc, error, calibrated_horses, joint_probs, exacta_bets,
                 trifecta_bets, superfecta_bets, ev_signals, min_ev_threshold,
                 signal_history, kelly_vars, history_vars, reply,
                 results, config>>

\* self.signal_history.extend(signals), and the response with the signals
Extend(r) ==
  /\ requests[r].pc = "filtered"
  /\ signal_history' = extend_history(signal_history, requests[r].ev_signals)
  /\ returned' = Append(returned, requests[r].ev_signals)
  /\ requests' = [requests EXCEPT ![r] =
       [@ EXCEPT !.pc = "done", !.response = requests[r].ev_signals]]
  /\ UNCHANGED <<horses, pc, error, calibrated_horses, joint_probs, exacta_bets,
                 trifecta_bets, superfecta_bets, ev_signals, min_ev_threshold,
                 kelly_vars, top_call, reply,
                 results, config>>

InitServer ==
  /\ horses = <<>>
  /\ pc = "server"
  /\ exacta_bets = <<>>
  /\ trifecta_bets = <<>>
  /\ superfecta_bets = <<>>
  /\ min_ev_threshold = default_min_ev_threshold
  /\ kelly_args = <<>>
  /\ Fresh

\* requests served by concurrent threads
NextServer == \E r \in 1..MaxRequests : Receive(r) \/ Filter(r) \/ Extend(r)

SpecServer == InitServer /\ [][NextServer]_vars

\* requests served one after the other
InFlight(r) == requests[r].pc \in {"received", "filtered"}

ReceiveInTurn(r) ==
  /\ \A q \in 1..MaxRequests : ~InFlight(q)
  /\ Receive(r)

NextSequential ==
  \E r \in 1..MaxRequests : ReceiveInTurn(r) \/ Filter(r) \/ Extend(r)

SpecSequential == InitServer /\ [][NextSequential]_vars

\* ------------------------------------- the horse records of a request

MaxHorseData == 2

Endpoints == {"/optimize", "/probabilities/calibrate", "/combinations", "/signals"}
BetTypes == {"exacta", "trifecta", "superfecta", "quinella"}
RequiredFields == {"id", "name", "odds"}

\* the i-th horse record of a request, with the given keys
horse_data(i, keys) == [k \in keys |-> Horse(i, Contender)[k]]

\* the horse records of a request: any of the required keys and of
\* win_probability may be missing
HorseData ==
  UNION {[1..n -> SUBSET (RequiredFields \cup {"win_probability"})]
           : n \in 0..MaxHorseData}

\* the JSON payloads: without 'horses', or with a list of horse records
Payloads ==
  {<<>>} \cup {[horses |-> [i \in DOMAIN keys |-> horse_data(i, keys[i])]]
                 : keys \in HorseData}

\* horse_data.get(key, default)
get(record, key, default) ==
  IF key \in DOMAIN record THEN record[key] ELSE default

\* the KeyError of Horse(id=horse_data['id'], name=horse_data['name'], ...,
\* odds=horse_data['odds'], ...): the first missing key, "" when none
key_error(record) ==
  IF "id" \notin DOMAIN record THEN "id"
  ELSE IF "name" \notin DOMAIN record THEN "name"
  ELSE IF "odds" \notin DOMAIN record THEN "odds"
  ELSE ""

\* the Horse built from a complete record
parse_horse(record) ==
  [id |-> record["id"], name |-> record["name"],
   win_probability |-> get(record, "win_probability", Num(1, 10)),
   place_probability |-> get(record, "place_probability", Num(2, 10)),
   show_probability |-> get(record, "show_probability", Num(3, 10)),
   odds |-> record["odds"],
   jockey |-> get(record, "jockey", "Unknown"),
   trainer |-> get(record, "trainer", "Unknown"),
   form_rating |-> get(record, "form_rating", Num(75, 1)),
   speed_rating |-> get(record, "speed_rating", Num(80, 1)),
   class_rating |-> get(record, "class_rating", Num(75, 1))]

\* the loop over data['horses']: the KeyError of the first incomplete record
RECURSIVE first_key_error(_)
first_key_error(records) ==
  IF records = <<>> THEN ""
  ELSE IF key_error(Head(records)) # "" THEN key_error(Head(records))
  ELSE first_key_error(Tail(records))

\* the reply of an endpoint to a payload, before any computation: status 0
\* when the horses are parsed and the computation starts
parse_reply(endpoint, bet_type, data) ==
  LET request == [endpoint |-> endpoint, bet_type |-> bet_type, data |-> data]
      rejected(code, text, key) ==
        request @@ [status |-> code, error |-> text, field |-> key]
  IN  IF endpoint = "/combinations"
           /\ bet_type \notin {"exacta", "trifecta", "superfecta"}
      THEN rejected(400, "Invalid bet type", "")
      ELSE IF "horses" \notin DOMAIN data
      THEN rejected(400, "Missing required field: horses", "")
      ELSE IF first_key_error(data.horses) = ""
      THEN rejected(0, "", "")
      ELSE IF endpoint = "/optimize"
      THEN rejected(400, "Missing required horse field",
                    first_key_error(data.horses))
      ELSE rejected(500, "Internal server error", first_key_error(data.horses))

InitEndpoints ==
  /\ horses = <<>>
  /\ pc = "request"
  /\ exacta_bets = <<>>
  /\ trifecta_bets = <<>>
  /\ superfecta_bets = <<>>
  /\ min_ev_threshold = default_min_ev_threshold
  /\ kelly_args = <<>>
  /\ Fresh

\* an endpoint receives a payload and parses its horses; it replies at once
\* when it rejects the payload, and goes on to the computation otherwise
ParseHorses ==
  /\ pc = "request"
  /\ \E endpoint \in Endpoints : \E data \in Payloads :
     \E bet_type \in IF endpoint = "/combinations" THEN BetTypes ELSE {""} :
       /\ reply' = parse_reply(endpoint, bet_type, data)
       /\ IF reply'.status = 0
          THEN /\ pc' = "start"
               /\ horses' = [i \in DOMAIN data.horses |-> parse_horse(data.horses[i])]
          ELSE /\ pc' = "replied"
               /\ UNCHANGED horses
  /\ UNCHANGED <<error, calibrated_horses, joint_probs, exacta_bets,
                 trifecta_bets, superfecta_bets, ev_signals, min_ev_threshold,
                 signal_history, kelly_vars, history_vars, requests,
                 results, config>>

NextEndpoints == ParseHorses

SpecEndpoints == InitEndpoints /\ [][NextEndpoints]_vars

\* ------------------------------------ whole requests and their replies

\* horses = [Horse(...) for h in horses_data], of a payload whose horse
\* records have every field
request_horses_of(data) ==
  LET parsed_horses == [i \in DOMAIN data.horses |-> parse_horse(data.horses[i])]
  IN  SubSeq(parsed_horses, 1, Len(parsed_horses))

\* an exception of optimizer.optimize_exotic_bets(horses): "" when none
optimize_raises(request_horses) ==
  IF calibrate_raises(request_horses) THEN "ZeroDivisionError"
  ELSE IF \E calibrated \in {calibrate_win_probabilities(request_horses)} :
            \/ exacta_raises(calibrated)
            \/ trifecta_raises(calibrated)
            \/ superfecta_raises(calibrated)
  THEN "ZeroDivisionError" ELSE ""

\* the /optimize handler on a payload, from request.get_json() to the
\* reply; optimizer.optimize_exotic_bets(horses) runs its steps one after the
\* other: the calibration, the three generators under their default caps,
\* the signals under the threshold, the report
Optimize(data) ==
  LET parsed == parse_reply("/optimize", "", data)
      options == get(data, "options", <<>>)
      threshold == IF "min_ev_threshold" \in DOMAIN options
                   THEN options.min_ev_threshold ELSE min_ev_threshold
  IN  /\ pc' = "replied"
      /\ IF parsed.status # 0
         THEN /\ reply' = parsed @@ [response |-> <<>>]
              /\ UNCHANGED <<min_ev_threshold, signal_history, returned>>
         ELSE \E request_horses \in {request_horses_of(data)} :
              /\ min_ev_threshold' = threshold
              /\ IF optimize_raises(request_horses) # ""
                 THEN /\ reply' = [parsed EXCEPT !.status = 500,
                                      !.error = "Internal server error"]
                                    @@ [response |-> <<>>]
                      /\ UNCHANGED <<signal_history, returned>>
                 ELSE \E calibrated \in {calibrate_win_probabilities(request_horses)} :
                      \E exactas \in {generate_exacta_combinations(calibrated, 20)} :
                      \E trifectas \in {generate_trifecta_combinations(calibrated, 15)} :
                      \E superfectas \in {generate_superfecta_combinations(calibrated, 10)} :
                      \E all_bets \in {exactas \o trifectas \o superfectas} :
                      \E signals \in {generate_ev_signals(all_bets, threshold)} :
                      \E report \in {compile_results(request_horses, calibrated,
                                                     exactas, trifectas,
                                                     superfectas, signals)} :
                        /\ reply' = [parsed EXCEPT !.status = 200]
                                      @@ [response |-> report]
                        /\ signal_history' = extend_history(signal_history, signals)
                        /\ returned' = Append(returned, signals)
      /\ UNCHANGED <<horses, error, calibrated_horses, joint_probs, exacta_bets,
                     trifecta_bets, superfecta_bets, ev_signals, kelly_vars,
                     top_call, requests, results, config>>

\* the combinations of the /combinations/<bet_type> handler for a
\* calibrated field
generate_combinations(bet_type, calibrated, max_combinations) ==
  IF bet_type = "exacta"
  THEN generate_exacta_combinations(calibrated, max_combinations)
  ELSE IF bet_type = "trifecta"
  THEN generate_trifecta_combinations(calibrated, max_combinations)
  ELSE generate_superfecta_combinations(calibrated, max_combinations)

\* an exception of the /combinations/<bet_type> handler after the parsing
combinations_raises(bet_type, request_horses) ==
  IF calibrate_raises(request_horses) THEN "ZeroDivisionError"
  ELSE IF \E calibrated \in {calibrate_win_probabilities(request_horses)} :
            \/ bet_type = "exacta" /\ exacta_raises(calibrated)
            \/ bet_type = "trifecta" /\ trifecta_raises(calibrated)
            \/ bet_type = "superfecta" /\ superfecta_raises(calibrated)
  THEN "ZeroDivisionError" ELSE ""

\* the /combinations/<bet_type> handler on a payload
GenerateCombinations(bet_type, data) ==
  LET parsed == parse_reply("/combinations", bet_type, data)
      max_combinations == get(data, "max_combinations", 20)
  IN  /\ pc' = "replied"
      /\ IF parsed.status # 0
         THEN reply' = parsed @@ [response |-> <<>>]
         ELSE \E request_horses \in {request_horses_of(data)} :
              IF combinations_raises(bet_type, request_horses) # ""
              THEN reply' = [parsed EXCEPT !.status = 500,
                               !.error = "Internal server error"]
                             @@ [response |-> <<>>]
              ELSE \E calibrated \in {calibrate_win_probabilities(request_horses)} :
                   \E combinations \in
                        {generate_combinations(bet_type, calibrated,
                                               max_combinations)} :
                     reply' = [parsed EXCEPT !.status = 200]
                                @@ [response |->
                                      [bet_type |-> bet_type,
                                       total_combinations |-> Len(combinations),
                                       combinations |-> combinations]]
      /\ UNCHANGED <<horses, error, calibrated_horses, joint_probs, exacta_bets,
                     trifecta_bets, superfecta_bets, ev_signals,
                     min_ev_threshold, signal_history, kelly_vars,
                     history_vars, requests, results, config>>

\* --------------------------------------------- the caps of a request

MaxCap == 2

\* two regular horses, or a consensus field of the shortest superfecta length
CapRaces ==
  RacesOver(RegularKinds, 2, 2)
    \cup ConsensusRaces(superfecta_length, superfecta_length)

\* the options of an /optimize request: none, or the three caps
CapOptions ==
  {<<>>} \cup {[max_exacta |-> a, max_trifecta |-> b, max_superfecta |-> c]
                 : a \in 1..MaxCap, b \in 1..MaxCap, c \in 1..MaxCap}

OptimizePayloads ==
  {[horses |-> request_horses, options |-> options]
     : request_horses \in CapRaces, options \in CapOptions}

CombinationPayloads ==
  {[horses |-> request_horses] : request_horses \in CapRaces}
    \cup {[horses |-> request_horses, max_combinations |-> n]
            : request_horses \in CapRaces, n \in 1..MaxCap}

InitCaps ==
  /\ horses = <<>>
  /\ pc = "caps"
  /\ exacta_bets = <<>>
  /\ trifecta_bets = <<>>
  /\ superfecta_bets = <<>>
  /\ min_ev_threshold = default_min_ev_threshold
  /\ kelly_args = <<>>
  /\ Fresh

OptimizeWithCaps ==
  /\ pc = "caps"
  /\ \E data \in OptimizePayloads : Optimize(data)

CombinationsWithCaps ==
  /\ pc = "caps"
  /\ \E bet_type \in BetTypes : \E data \in CombinationPayloads :
       GenerateCombinations(bet_type, data)

NextCaps == OptimizeWithCaps \/ CombinationsWithCaps

SpecCaps == InitCaps /\ [][NextCaps]_vars

\* --------------------------------------- requests that end in an error

\* three level horses: some of these fields make the optimization raise
FailureRaces == RacesOver(LevelKinds, superfecta_length - 1, superfecta_length - 1)

\* the payloads of /optimize: without 'horses'; horse records that may lack
\* a field, or a field of level horses, without options or with a
\* min_ev_threshold
FailurePayloads ==
  {<<>>}
    \cup {[horses |-> payload.horses, options |-> options]
            : payload \in Payloads \ {<<>>}, options \in RequestOptions}
    \cup {[horses |-> request_horses, options |-> options]
            : request_horses \in FailureRaces, options \in RequestOptions}

InitFailures ==
  /\ horses = <<>>
  /\ pc = "serving"
  /\ exacta_bets = <<>>
  /\ trifecta_bets = <<>>
  /\ superfecta_bets = <<>>
  /\ min_ev_threshold = default_min_ev_threshold
  /\ kelly_args = <<>>
  /\ Fresh

OptimizeOrFail ==
  /\ pc = "serving"
  /\ \E data \in FailurePayloads : Optimize(data)

NextFailures == OptimizeOrFail

SpecFailures == InitFailures /\ [][NextFailures]_vars

\* ------------------------------------------------------------------ claims

InUnitInterval(x) == NLe(Zero, x) /\ NLe(x, One)

\* what identifies the bet a signal was made from
BetKey(r) ==
  [bet_type |-> r.bet_type, combination |-> r.combination,
   probability |-> r.probability, expected_value |-> r.expected_value,
   kelly_fraction |-> r.kelly_fraction, confidence_score |-> r.confidence_score]

AboveThreshold ==
  {i \in DOMAIN all_exotic_bets :
     NLt(min_ev_threshold, all_exotic_bets[i].expected_value)}

\* C1: generate_ev_signals returns one signal for exactly the bets whose
\* expected value is strictly greater than min_ev_threshold: every bet above the
\* threshold has its signal, as many times as it occurs, and a bet at or below
\* the threshold has none.
C1_SignalsExactlyAboveThreshold ==
  pc = "signals" =>
    /\ Len(ev_signals) = Cardinality(AboveThreshold)
    /\ \A i \in DOMAIN all_exotic_bets :
         Cardinality({j \in DOMAIN ev_signals :
                        BetKey(ev_signals[j]) = BetKey(all_exotic_bets[i])})
           = Cardinality({k \in AboveThreshold :
                            BetKey(all_exotic_bets[k]) = BetKey(all_exotic_bets[i])})

\* under the default threshold 0.05: a bet of probability 0.05 and payout 10
\* (EV -0.5) and a bet whose EV is the threshold itself are left out, the bet
\* of probability 0.15 and payout 8 (EV 0.2) is the one signal
C1_Witness ==
  /\ pc = "signals"
  /\ min_ev_threshold = Num(5, 100)
  /\ \E i, j, k \in DOMAIN all_exotic_bets :
       /\ all_exotic_bets[i].probability = Num(5, 100)
       /\ all_exotic_bets[i].payout_odds = Num(10, 1)
       /\ all_exotic_bets[i].expected_value = Num(-1, 2)
       /\ all_exotic_bets[j].expected_value = min_ev_threshold
       /\ all_exotic_bets[k].probability = Num(15, 100)
       /\ all_exotic_bets[k].payout_odds = Num(8, 1)
       /\ all_exotic_bets[k].expected_value = Num(2, 10)
       /\ Len(ev_signals) = 1
       /\ BetKey(ev_signals[1]) = BetKey(all_exotic_bets[k])

InKellyRange(k) == NLe(Zero, k) /\ NLe(k, Num(1, 4))

\* C2: _calculate_kelly_fraction returns a value in [0, 0.25] for every
\* probability and payout, exactly 0 when the payout is at most 1, and every
\* bet of the three generators has its kelly_fraction in [0, 0.25].
C2_KellyFractionWithinCap ==
  /\ pc = "kelly_done" =>
       /\ InKellyRange(kelly_fraction)
       /\ NLe(kelly_args.odds, One) => kelly_fraction = Zero
  /\ \A i \in DOMAIN all_exotic_bets :
       InKellyRange(all_exotic_bets[i].kelly_fraction)

\* a call whose uncapped fraction (b p - q) / b is above the cap
C2_Witness ==
  /\ pc = "kelly_done"
  /\ NLt(One, kelly_args.odds)
  /\ LET b == NSub(kelly_args.odds, One)
     IN  NLt(NMul(Num(1, 4), b),
             NSub(NMul(b, kelly_args.probability),
                  NSub(One, kelly_args.probability)))
  /\ kelly_fraction = Num(1, 4)

\* C3: every win, place and show probability of every horse that
\* calibrate_win_probabilities returns lies in [0,1], for any horse list.
C3_CalibratedProbabilitiesInUnitInterval ==
  \A i \in DOMAIN calibrated_horses :
    /\ InUnitInterval(calibrated_horses[i].win_probability)
    /\ InUnitInterval(calibrated_horses[i].place_probability)
    /\ InUnitInterval(calibrated_horses[i].show_probability)

\* the implied probability of a horse as the claim words it
ClaimedImplied(horse) ==
  IF NLe(horse.odds, Zero) THEN Num(1, 100) ELSE NDiv(One, horse.odds)

ClaimedNormalized(i) ==
  NDiv(ClaimedImplied(horses[i]),
       NSum([j \in 1..Len(horses) |-> ClaimedImplied(horses[j])]))

\* C4: every calibrated win probability is 0.7 * the model's win probability
\* + 0.3 * the normalized implied probability, the implied probability being
\* 1/odds (0.01 when odds <= 0) and the normalized ones summing to 1; the
\* blend is not normalized afterwards.
C4_CalibratedIsBlend ==
  (pc # "start" /\ Len(horses) > 0) =>
    /\ Len(calibrated_horses) = Len(horses)
    /\ NSum([i \in 1..Len(horses) |-> ClaimedNormalized(i)]) = One
    /\ \A i \in 1..Len(horses) :
         calibrated_horses[i].win_probability
           = NAdd(NMul(Num(7, 10), horses[i].win_probability),
                  NMul(Num(3, 10), ClaimedNormalized(i)))

\* a calibrated field with odds <= 0 next to odds > 0 whose calibrated win
\* probabilities do not sum to 1
C4_Witness ==
  /\ pc = "calibrated"
  /\ \E i, j \in 1..Len(horses) :
       NLe(horses[i].odds, Zero) /\ NLt(Zero, horses[j].odds)
  /\ NSum(win_probabilities(calibrated_horses)) # One

\* the ordered pairs of distinct identifiers of the race
OrderedPairs == {<<a, b>> \in Range(ids(horses)) \X Range(ids(horses)) : a # b}

\* C5: for n horses of distinct identifiers the exacta mapping has exactly
\* n * (n - 1) entries, one for each ordered pair of distinct identifiers and
\* none for a pair (h, h); no horse is pruned.
C5_ExactaHasAllOrderedPairs ==
  pc = "joint" /\ error = "" =>
    LET entries == joint_probs.exacta
    IN  /\ Len(entries) = Len(horses) * (Len(horses) - 1)
        /\ {entries[i].perm : i \in DOMAIN entries} = OrderedPairs
        /\ \A i \in DOMAIN entries : entries[i].perm[1] # entries[i].perm[2]

\* a field larger than the pools of the other two bet types
C5_Witness ==
  /\ pc = "joint" /\ error = ""
  /\ Len(horses) > 6
  /\ Len(joint_probs.exacta) = Len(horses) * (Len(horses) - 1)
  /\ Len(joint_probs.trifecta) < Len(horses) * (Len(horses) - 1) * (Len(horses) - 2)

\* horse i is among the k best by calibrated win probability, the earlier
\* horse first among equals
InPool(i, k) ==
  Cardinality({j \in 1..Len(calibrated_horses) :
     \/ NLt(calibrated_horses[i].win_probability, calibrated_horses[j].win_probability)
     \/ /\ calibrated_horses[j].win_probability = calibrated_horses[i].win_probability
        /\ j < i}) < k

PoolIds(k) == {calibrated_horses[i].id : i \in {j \in 1..Len(calibrated_horses) : InPool(j, k)}}

Perms(entries) == {entries[i].perm : i \in DOMAIN entries}

\* C6: the keys of the trifecta mapping are exactly the ordered triples of
\* distinct identifiers of the 6 horses of highest calibrated win probability
\* (all horses when fewer), those of the superfecta mapping the ordered
\* quadruples of the top 5; among horses of equal win probability the one
\* earlier in the input is preferred.
C6_PoolsAreTopByWinProbability ==
  pc = "joint" /\ error = "" =>
    /\ Perms(joint_probs.trifecta)
         = {t \in PoolIds(6) \X PoolIds(6) \X PoolIds(6) :
              t[1] # t[2] /\ t[1] # t[3] /\ t[2] # t[3]}
    /\ Cardinality(Perms(joint_probs.trifecta)) = Len(joint_probs.trifecta)
    /\ Perms(joint_probs.superfecta)
         = {q \in PoolIds(5) \X PoolIds(5) \X PoolIds(5) \X PoolIds(5) :
              \A a, b \in 1..4 : a # b => q[a] # q[b]}
    /\ Cardinality(Perms(joint_probs.superfecta)) = Len(joint_probs.superfecta)

\* a field of more than 6 horses where a horse left out of the trifecta pool
\* ties with a horse in it, and a later horse in the pool beats an earlier one
\* left out
C6_Witness ==
  /\ pc = "joint" /\ error = ""
  /\ Len(horses) > 6
  /\ joint_probs.superfecta # <<>>
  /\ \E i, j \in 1..Len(calibrated_horses) :
       /\ InPool(i, 6) /\ ~InPool(j, 6)
       /\ calibrated_horses[i].win_probability = calibrated_horses[j].win_probability
  /\ \E i, j \in 1..Len(calibrated_horses) :
       i < j /\ ~InPool(i, 5) /\ InPool(j, 5)

\* C7: for a horse list of win probabilities in [0,1] (and any odds),
\* calibration followed by the exacta, trifecta and superfecta computations
\* never divides by zero.
C7_NoDivisionByZero ==
  (\A i \in 1..Len(horses) : InUnitInterval(horses[i].win_probability))
    => error # "ZeroDivisionError"

WinProbabilityOf(id) == first_with_id(calibrated_horses, id).win_probability

\* the win probabilities of the horses perm places before position s
RECURSIVE PlacedBefore(_, _)
PlacedBefore(perm, s) ==
  IF s = 1 THEN Zero
  ELSE NAdd(PlacedBefore(perm, s - 1), WinProbabilityOf(perm[s - 1]))

\* the product over the positions of perm of the win probability of the horse
\* placed there divided by (total minus the horses placed before)
RECURSIVE Renormalized(_, _, _)
Renormalized(perm, total, s) ==
  IF s = 0 THEN One
  ELSE NMul(Renormalized(perm, total, s - 1),
            NDiv(WinProbabilityOf(perm[s]), NSub(total, PlacedBefore(perm, s))))

PoolTotal ==
  NSum([i \in 1..Len(top_horses(calibrated_horses, 5)) |->
          top_horses(calibrated_horses, 5)[i].win_probability])

FieldTotal == NSum(win_probabilities(calibrated_horses))

\* C8 as stated: each positional probability of a superfecta is the win
\* probability of the horse placed divided by the sum of the win probabilities
\* of the horses of the top-5 pool not yet placed, and the joint probability
\* is the product of the four.
C8_RenormalizedWithinPool ==
  pc = "joint" /\ error = "" =>
    \A i \in DOMAIN joint_probs.superfecta :
      joint_probs.superfecta[i].prob
        = Renormalized(joint_probs.superfecta[i].perm, PoolTotal, 4)

\* C8 as amended: each positional probability of a superfecta is the win
\* probability of the horse placed divided by the sum of the win probabilities
\* of all the horses of the field not yet placed in this permutation, inside
\* the top-5 pool or not, and the joint probability is the product of the four.
C8_RenormalizedWithinField ==
  pc = "joint" /\ error = "" =>
    \A i \in DOMAIN joint_probs.superfecta :
      joint_probs.superfecta[i].prob
        = Renormalized(joint_probs.superfecta[i].perm, FieldTotal, 4)

\* a field with horses outside the top-5 pool
C8_Witness ==
  /\ pc = "joint" /\ error = ""
  /\ Len(horses) > 5
  /\ joint_probs.superfecta # <<>>
  /\ PoolTotal # FieldTotal

\* C9: for a horse list of odds > 0 and win probabilities in [0,1], whether
\* or not they sum to 1, every bet of the three generators has a joint
\* probability in [0,1].
C9_JointProbabilityInUnitInterval ==
  (/\ \A i \in 1..Len(horses) :
        InUnitInterval(horses[i].win_probability) /\ NLt(Zero, horses[i].odds)
   /\ \A i \in 1..Len(calibrated_horses) :
        InUnitInterval(calibrated_horses[i].win_probability))
    => \A i \in DOMAIN all_exotic_bets :
         InUnitInterval(all_exotic_bets[i].probability)

HasArity(bets, arity) ==
  \A i \in DOMAIN bets :
    LET combination == bets[i].combination
    IN  /\ Len(combination) = arity
        /\ \A a, b \in 1..Len(combination) :
             a # b => combination[a] # combination[b]
        /\ Range(combination) \subseteq Range(ids(horses))

\* C10: for a race of unique identifiers every bet of the exacta, trifecta and
\* superfecta generators has a combination of exactly 2, 3 and 4 identifiers,
\* pairwise distinct and all of horses of the race.
C10_CombinationsDistinctOfArity ==
  (\A i, j \in 1..Len(horses) : i # j => horses[i].id # horses[j].id) =>
    /\ HasArity(exacta_bets, 2)
    /\ HasArity(trifecta_bets, 3)
    /\ HasArity(superfecta_bets, 4)

\* a race of unique identifiers with bets of the three types
C10_Witness ==
  /\ pc = "superfecta" /\ error = ""
  /\ \A i, j \in 1..Len(horses) : i # j => horses[i].id # horses[j].id
  /\ exacta_bets # <<>> /\ trifecta_bets # <<>> /\ superfecta_bets # <<>>

EstimatedPayout(bet_type, perm) ==
  CASE bet_type = "exacta" -> _estimate_exacta_payout(perm, calibrated_horses)
    [] bet_type = "trifecta" -> _estimate_trifecta_payout(perm, calibrated_horses)
    [] bet_type = "superfecta" -> _estimate_superfecta_payout(perm, calibrated_horses)

\* the entries of a mapping whose joint probability is at least 0.001
Survivors(entries) ==
  {i \in DOMAIN entries : NLe(Num(1, 1000), entries[i].prob)}

EntryValue(bet_type, entry) ==
  NSub(NMul(entry.prob, EstimatedPayout(bet_type, entry.perm)), One)

\* bets are the max_results best of the surviving entries by expected value
SelectedTop(bets, entries, bet_type, max_results) ==
  LET surviving_entries == Survivors(entries)
  IN  /\ Len(bets) = IF Cardinality(surviving_entries) < max_results
                     THEN Cardinality(surviving_entries) ELSE max_results
      /\ Cardinality({bets[b].combination : b \in DOMAIN bets}) = Len(bets)
      /\ \A b \in DOMAIN bets :
           /\ NLe(Num(1, 1000), bets[b].probability)
           /\ \E i \in surviving_entries :
                /\ entries[i].perm = bets[b].combination
                /\ entries[i].prob = bets[b].probability
                /\ EntryValue(bet_type, entries[i]) = bets[b].expected_value
      /\ \A b \in 1..(Len(bets) - 1) :
           NLe(bets[b + 1].expected_value, bets[b].expected_value)
      /\ \A i \in surviving_entries :
           (\A b \in DOMAIN bets : bets[b].combination # entries[i].perm)
             => \A b \in DOMAIN bets :
                  NLe(EntryValue(bet_type, entries[i]), bets[b].expected_value)

\* C11: each generator returns the max_results (20, 15, 10) bets of highest
\* expected value among the combinations of joint probability at least 0.001,
\* all of them when fewer survive, in non-increasing order of expected value;
\* no omitted surviving combination has a strictly higher expected value than
\* a returned one.
C11_TopSurvivorsByExpectedValue ==
  /\ pc = "exacta" /\ error = "" =>
       SelectedTop(exacta_bets,
                   _calculate_exacta_probabilities(calibrated_horses), "exacta", 20)
  /\ pc = "trifecta" /\ error = "" =>
       SelectedTop(trifecta_bets,
                   _calculate_trifecta_probabilities(calibrated_horses), "trifecta", 15)
  /\ pc = "superfecta" /\ error = "" =>
       SelectedTop(superfecta_bets,
                   _calculate_superfecta_probabilities(calibrated_horses),
                   "superfecta", 10)

\* superfectas of which some fall below 0.001 and more than 10 survive, the
\* mapping not being in the order of expected value
C11_Witness ==
  /\ pc = "superfecta" /\ error = ""
  /\ Len(superfecta_bets) = 10
  /\ LET entries == _calculate_superfecta_probabilities(calibrated_horses)
     IN  /\ Cardinality(Survivors(entries)) > 10
         /\ Cardinality(Survivors(entries)) < Len(entries)
         /\ \E i, j \in DOMAIN entries :
              /\ i < j
              /\ NLt(EntryValue("superfecta", entries[i]),
                     EntryValue("superfecta", entries[j]))

\* the product of the decimal odds the request gave the horses of a combination
RECURSIVE RequestOddsProduct(_)
RequestOddsProduct(combination) ==
  IF combination = <<>> THEN One
  ELSE NMul(RequestOddsProduct(Tail(combination)),
            first_with_id(horses, Head(combination)).odds)

Floored(x, floor) == IF NLt(x, floor) THEN floor ELSE x

HasPayout(bets, retention, floor) ==
  \A i \in DOMAIN bets :
    /\ bets[i].payout_odds
         = Floored(NMul(RequestOddsProduct(bets[i].combination), retention), floor)
    /\ NLe(floor, bets[i].payout_odds)

\* C12: the payout of a bet is max(product of its horses' odds * retention,
\* floor) with (retention, floor) = (0.80, 2) for exacta, (0.75, 5) for
\* trifecta and (0.70, 10) for superfecta, so it is at least the floor of its
\* bet type whatever the odds.
C12_PayoutIsFlooredProduct ==
  /\ HasPayout(exacta_bets, Num(80, 100), Num(2, 1))
  /\ HasPayout(trifecta_bets, Num(75, 100), Num(5, 1))
  /\ HasPayout(superfecta_bets, Num(70, 100), Num(10, 1))

\* an exacta on a horse of odds <= 0 paid at the floor next to one paid above
\* it, and trifectas
C12_Witness ==
  /\ \E i \in DOMAIN exacta_bets :
       /\ exacta_bets[i].payout_odds = Num(2, 1)
       /\ \E a \in 1..2 :
            NLe(first_with_id(horses, exacta_bets[i].combination[a]).odds, Zero)
  /\ \E j \in DOMAIN exacta_bets : NLt(Num(2, 1), exacta_bets[j].payout_odds)
  /\ trifecta_bets # <<>>

Capped(x) == IF NLt(One, x) THEN One ELSE x

\* C13: for every signal of generate_ev_signals, under any threshold, the
\* sub-components min(EV * 2, 1), confidence and min(kelly * 4, 1) lie in
\* [0,1], and so does signal_strength.
C13_SignalStrengthInUnitInterval ==
  \A j \in DOMAIN ev_signals :
    /\ InUnitInterval(Capped(NMul(ev_signals[j].expected_value, Num(2, 1))))
    /\ InUnitInterval(ev_signals[j].confidence_score)
    /\ InUnitInterval(Capped(NMul(ev_signals[j].kelly_fraction, Num(4, 1))))
    /\ InUnitInterval(ev_signals[j].signal_strength)

\* how many entries of a list of signals equal x
Occurrences(signals, x) == Cardinality({i \in DOMAIN signals : signals[i] = x})

\* C14: signal_history is the concatenation, in call order, of the lists the
\* calls of generate_ev_signals returned; get_top_signals(n) returns the
\* min(n, |history|) entries of highest signal_strength of the whole history
\* in non-increasing order of strength, and leaves the history as it was.
C14_HistoryIsConcatenationOfRuns ==
  /\ signal_history = Concat(returned)
  /\ pc = "top" =>
       LET result == top_call.result
       IN  /\ Len(result) = IF top_call.n < Len(signal_history)
                            THEN top_call.n ELSE Len(signal_history)
           /\ \A j \in 1..(Len(result) - 1) :
                NLe(result[j + 1].signal_strength, result[j].signal_strength)
           /\ \A j \in DOMAIN result :
                Occurrences(result, result[j]) <= Occurrences(signal_history, result[j])
           /\ \A i \in DOMAIN signal_history : \A j \in DOMAIN result :
                NLt(result[j].signal_strength, signal_history[i].signal_strength)
                  => Occurrences(result, signal_history[i])
                       = Occurrences(signal_history, signal_history[i])

\* two runs, the stronger signal in the second, and a top list that takes
\* entries of both runs and leaves one out
C14_Witness ==
  /\ pc = "top"
  /\ Len(returned) = 2
  /\ returned[1] # <<>> /\ returned[2] # <<>>
  /\ NLt(returned[1][1].signal_strength, returned[2][1].signal_strength)
  /\ top_call.n = 2
  /\ Len(signal_history) > 2
  /\ top_call.result[1] = returned[2][1]
  /\ top_call.result[2] = returned[1][1]

\* the request carries options.min_ev_threshold
Supplies(r) == "min_ev_threshold" \in DOMAIN requests[r].options

\* the threshold a request asks for: its option, or the default
OwnThreshold(r) ==
  IF Supplies(r)
  THEN requests[r].options.min_ev_threshold ELSE default_min_ev_threshold

\* the signals of a request's horse list under a threshold
SignalsUnder(r, threshold) ==
  generate_ev_signals(exotic_bets_of(requests[r].horses), threshold)

\* C15: an /optimize request without options.min_ev_threshold is filtered with
\* the default threshold 0.05 whatever earlier requests supplied: served one
\* after the other, its response holds the signals of its horse list above 0.05.
C15_DefaultThresholdWithoutOption ==
  \A r \in 1..MaxRequests :
    (requests[r].pc = "done" /\ ~Supplies(r))
      => requests[r].response = SignalsUnder(r, default_min_ev_threshold)

\* C16: under every interleaving of two requests with different thresholds,
\* each response holds exactly the signals above the request's own threshold.
C16_ResponseUnderOwnThreshold ==
  \A r \in 1..MaxRequests :
    (requests[r].pc = "done" /\ Supplies(r))
      => requests[r].response = SignalsUnder(r, OwnThreshold(r))

\* a horse record of the request misses id, name or odds
MissesRequiredField ==
  /\ "horses" \in DOMAIN reply.data
  /\ \E i \in DOMAIN reply.data.horses :
       ~(RequiredFields \subseteq DOMAIN reply.data.horses[i])

\* C17: at every endpoint taking a horse list, a horse record missing id, name
\* or odds is rejected before any computation as a validation failure (400)
\* naming a missing field, not as an internal server error.
C17_MissingFieldIsValidationFailure ==
  (pc # "request" /\ reply.error # "Invalid bet type" /\ MissesRequiredField)
    => /\ pc = "replied"
       /\ reply.status = 400
       /\ reply.field \in RequiredFields
       /\ \E i \in DOMAIN reply.data.horses :
            reply.field \notin DOMAIN reply.data.horses[i]

\* the generators that have returned
ExactaReturned ==
  pc \in {"trifecta", "superfecta", "signals", "done"} \/ (pc = "exacta" /\ error = "")
TrifectaReturned ==
  pc \in {"superfecta", "signals", "done"} \/ (pc = "trifecta" /\ error = "")
SuperfectaReturned ==
  pc \in {"signals", "done"} \/ (pc = "superfecta" /\ error = "")

NoSurvivor(entries) == Survivors(entries) = {}

RECURSIVE KellyOfPositive(_, _)
KellyOfPositive(bets, n) ==
  IF n = 0 THEN Zero
  ELSE IF n = 1
  THEN IF NLt(Zero, bets[1].expected_value) THEN bets[1].kelly_fraction ELSE Zero
  ELSE NAdd(KellyOfPositive(SubSeq(bets, 1, n \div 2), n \div 2),
            KellyOfPositive(SubSeq(bets, n \div 2 + 1, n), n - n \div 2))

\* C19: in a report with at least one combination, total_combinations_analyzed
\* is the sum of the three per-type counts, profitable_opportunities is the
\* number of signals, profitability_rate is signals / total and lies in [0,1],
\* and total_kelly_allocation sums kelly_fraction over the bets with EV > 0.
C19_SummaryStatsOfReport ==
  (pc = "done" /\ all_exotic_bets # <<>>) =>
    LET stats == results.summary_stats
        counts == results.exotic_combinations
    IN  /\ counts.exacta = Len(exacta_bets)
        /\ counts.trifecta = Len(trifecta_bets)
        /\ counts.superfecta = Len(superfecta_bets)
        /\ stats.total_combinations_analyzed
             = counts.exacta + counts.trifecta + counts.superfecta
        /\ stats.profitable_opportunities = Len(ev_signals)
        /\ stats.profitable_opportunities = results.profitable_signals
        /\ stats.profitability_rate
             = Num(Len(ev_signals), stats.total_combinations_analyzed)
        /\ InUnitInterval(stats.profitability_rate)
        /\ stats.total_kelly_allocation
             = KellyOfPositive(all_exotic_bets, Len(all_exotic_bets))

\* a report with bets of all three types, some of them signals, some of no
\* positive expected value, and a positive total kelly allocation
C19_Witness ==
  /\ pc = "done"
  /\ exacta_bets # <<>> /\ trifecta_bets # <<>> /\ superfecta_bets # <<>>
  /\ 0 < Len(ev_signals) /\ Len(ev_signals) < Len(all_exotic_bets)
  /\ \E i \in DOMAIN all_exotic_bets :
       NLe(all_exotic_bets[i].expected_value, Zero)
  /\ NLt(Zero, results.summary_stats.total_kelly_allocation)

\* C20: the report of a run contains the full list of the signals generated
\* in the run: every signal counted in profitable_signals is in the report,
\* also when more than 10 signals were generated.
C20_ReportHoldsEverySignal ==
  pc = "done" =>
    /\ results.profitable_signals = Len(ev_signals)
    /\ \A i \in DOMAIN ev_signals :
         \E j \in DOMAIN results.top_opportunities :
           results.top_opportunities[j] = ev_signals[i]

NonIncreasing(values) ==
  \A i \in DOMAIN values : \A j \in DOMAIN values :
    i < j => ~NLt(values[i], values[j])

Smaller(a, b) == IF a < b THEN a ELSE b

\* C21: the list generate_ev_signals returns is in non-increasing order of
\* signal_strength, the report's top_opportunities is its prefix of length
\* min(10, number of signals), and no signal left out of top_opportunities
\* is strictly stronger than one inside it.
C21_TopOpportunitiesAreStrongest ==
  /\ (pc \in {"signals", "done"} /\ error = "") =>
       NonIncreasing(signal_strengths(ev_signals))
  /\ (pc = "done" /\ error = "") =>
       LET top == results.top_opportunities
           kept == Smaller(10, Len(ev_signals))
       IN  /\ Len(top) = kept
           /\ \A i \in 1..kept : top[i] = ev_signals[i]
           /\ \A i \in 1..kept : \A j \in (kept + 1)..Len(ev_signals) :
                 ~NLt(top[i].signal_strength, ev_signals[j].signal_strength)

\* a report that leaves signals out, over signals of several strengths that
\* the bets did not come in order of
C21_Witness ==
  /\ pc = "done" /\ error = ""
  /\ Len(ev_signals) > 10
  /\ Len(results.top_opportunities) = 10
  /\ NLt(ev_signals[11].signal_strength, ev_signals[1].signal_strength)
  /\ ev_signals # generate_ev_signals_unsorted(all_exotic_bets, min_ev_threshold)

\* C22: every Kelly fraction the generator produces lies in [0, c], for c
\* the configured max_kelly_fraction (0.25 by default, 0.15 after
\* load_environment_config('production')).
C22_KellyFractionWithinConfiguredCap ==
  pc = "kelly_done" =>
    /\ NLe(Zero, kelly_fraction)
    /\ NLe(kelly_fraction, config.max_kelly_fraction)

DefaultCap(bet_type) ==
  IF bet_type = "exacta" THEN 20 ELSE IF bet_type = "trifecta" THEN 15 ELSE 10

\* C23: an /optimize request with options max_exacta = a, max_trifecta = b,
\* max_superfecta = c yields at most a exacta, b trifecta and c superfecta
\* combinations, and a request without a cap, to /optimize or to
\* /combinations/<bet_type>, is served under the defaults 20/15/10.
C23_CapsOverridablePerRequest ==
  /\ (reply.endpoint = "/optimize" /\ reply.status = 200) =>
       LET options == reply.data.options
           counts == reply.response.exotic_combinations
       IN  /\ counts.exacta <= get(options, "max_exacta", 20)
           /\ counts.trifecta <= get(options, "max_trifecta", 15)
           /\ counts.superfecta <= get(options, "max_superfecta", 10)
  /\ (reply.endpoint = "/combinations" /\ reply.status = 200) =>
       reply.response.total_combinations
         <= get(reply.data, "max_combinations", DefaultCap(reply.bet_type))

BetsOf(signal) ==
  {k \in DOMAIN all_exotic_bets : BetKey(all_exotic_bets[k]) = BetKey(signal)}

\* C24: every signal's recommended_stake is 1000 times the kelly_fraction of
\* its bet, neither rounded nor capped further, and so lies in [0, 250].
C24_StakeIsBankrollTimesKelly ==
  (pc \in {"signals", "done"} /\ error = "") =>
    \A i \in DOMAIN ev_signals :
      /\ BetsOf(ev_signals[i]) # {}
      /\ \A k \in BetsOf(ev_signals[i]) :
           /\ ev_signals[i].kelly_fraction = all_exotic_bets[k].kelly_fraction
           /\ ev_signals[i].recommended_stake
                = NMul(Num(1000, 1), all_exotic_bets[k].kelly_fraction)
      /\ NLe(Zero, ev_signals[i].recommended_stake)
      /\ NLe(ev_signals[i].recommended_stake, Num(250, 1))

\* signals of a run with the stake at 250, and with a stake strictly between
\* 100 and 250
C24_Witness ==
  /\ pc = "signals" /\ error = ""
  /\ \E i \in DOMAIN ev_signals : ev_signals[i].recommended_stake = Num(250, 1)
  /\ \E i \in DOMAIN ev_signals :
       /\ NLt(Num(100, 1), ev_signals[i].recommended_stake)
       /\ NLt(ev_signals[i].recommended_stake, Num(250, 1))

ModelTotal == NSum(win_probabilities(horses))

CalibratedTotal == NSum(win_probabilities(calibrated_horses))

BlendOfTotals == NAdd(NMul(Num(7, 10), ModelTotal), Num(3, 10))

\* C25: the calibrated win probabilities of the field sum to
\* 0.7 * (the sum of the model win probabilities) + 0.3, so to 1 exactly
\* when the model win probabilities sum to 1.
C25_CalibratedSumIsBlendOfSums ==
  (pc = "calibrated" /\ error = "") =>
    /\ CalibratedTotal = BlendOfTotals
    /\ CalibratedTotal = One <=> ModelTotal = One

\* C25, for a field of at least one horse: the calibrated win probabilities
\* sum to 0.7 * (the sum of the model win probabilities) + 0.3, so to 1
\* exactly when the model win probabilities sum to 1; the calibration of
\* the empty field is empty and sums to 0.
C25_CalibratedSumOfNonEmptyField ==
  (pc = "calibrated" /\ error = "") =>
    IF horses = <<>>
    THEN calibrated_horses = <<>> /\ CalibratedTotal = Zero
    ELSE /\ CalibratedTotal = BlendOfTotals
         /\ CalibratedTotal = One <=> ModelTotal = One

\* a calibrated field of several horses whose model win probabilities do not
\* sum to 1
C25_Witness ==
  /\ pc = "calibrated" /\ error = ""
  /\ Len(horses) >= 3
  /\ NLt(One, ModelTotal)
  /\ NLt(One, CalibratedTotal)
  /\ NLt(CalibratedTotal, ModelTotal)

SameButProbabilities(calibrated, horse) ==
  /\ calibrated.id = horse.id
  /\ calibrated.name = horse.name
  /\ calibrated.odds = horse.odds
  /\ calibrated.jockey = horse.jockey
  /\ calibrated.trainer = horse.trainer
  /\ calibrated.form_rating = horse.form_rating
  /\ calibrated.speed_rating = horse.speed_rating
  /\ calibrated.class_rating = horse.class_rating

FrameOfCalibrationAndGeneration ==
  /\ (pc = "start" /\ pc' = "calibrated") =>
       /\ horses' = horses
       /\ signal_history' = signal_history
       /\ min_ev_threshold' = min_ev_threshold
       /\ error' = "" =>
            /\ Len(calibrated_horses') = Len(horses)
            /\ \A i \in DOMAIN horses :
                 SameButProbabilities(calibrated_horses'[i], horses[i])
  /\ (pc \in {"calibrated", "exacta", "trifecta"}
        /\ pc' \in {"exacta", "trifecta", "superfecta"}) =>
       /\ horses' = horses
       /\ calibrated_horses' = calibrated_horses
       /\ signal_history' = signal_history
       /\ min_ev_threshold' = min_ev_threshold

\* C26: calibrate_win_probabilities and the three generate_*_combinations
\* leave the input horse list and every input Horse as they were, the
\* calibrated list has the length, the identifiers in order, the odds, the
\* names and the ratings of the input, and the signal history and the EV
\* threshold are untouched.
C26_CalibrationAndGenerationMutateNothing ==
  [][FrameOfCalibrationAndGeneration]_vars

\* the superfecta bets of a field longer than the candidate pool, whose
\* calibrated horses differ from the input horses
C26_Witness ==
  /\ pc = "superfecta" /\ error = ""
  /\ Len(horses) > superfecta_pool
  /\ superfecta_bets # <<>>
  /\ Len(calibrated_horses) = Len(horses)
  /\ \A i \in DOMAIN horses : calibrated_horses[i] # horses[i]

AtNormalizedImplied(i) == horses[i].win_probability = ClaimedNormalized(i)

CalibrationTwice ==
  /\ (pc = "calibrated" /\ pc' = "again") =>
       calibrated_horses' = calibrated_horses
  /\ (pc = "calibrated" /\ pc' = "recalibrated") =>
       /\ Len(calibrated_horses') = Len(calibrated_horses)
       /\ \A i \in DOMAIN calibrated_horses :
            (calibrated_horses'[i].win_probability
               # calibrated_horses[i].win_probability)
              <=> (calibrated_horses[i].win_probability # ClaimedNormalized(i))
       /\ (calibrated_horses' = calibrated_horses)
            <=> \A i \in DOMAIN horses : AtNormalizedImplied(i)

\* C27: two calls of calibrate_win_probabilities on equal inputs return
\* equal outputs; applied to its own output it changes the win probability
\* of exactly the horses whose calibrated win probability differs from
\* their normalized implied probability, and returns its input only when
\* every horse's win probability already equals its normalized implied
\* probability.
C27_DeterministicNotIdempotent == [][CalibrationTwice]_vars

\* a calibrated field calibrated once more, on which every horse's win
\* probability moved
C27_Witness ==
  /\ pc = "recalibrated" /\ error = ""
  /\ Len(horses) >= 2
  /\ calibrated_horses # calibrate_win_probabilities(horses)
  /\ \A i \in DOMAIN horses :
       /\ ~AtNormalizedImplied(i)
       /\ calibrated_horses[i].win_probability
            = NAdd(NMul(Num(49, 100), horses[i].win_probability),
                   NMul(Num(51, 100), ClaimedNormalized(i)))

KellyOfAll(bets) == NSum([i \in 1..Len(bets) |-> bets[i].kelly_fraction])

\* C28: a bet of the generators has kelly_fraction > 0 exactly when its
\* expected_value > 0, its payout being above 1; so the kelly fractions of
\* the positive-EV bets sum to those of all bets, and under a non-negative
\* threshold every signal has kelly_fraction > 0 and recommended_stake > 0.
C28_KellyPositiveIffValuePositive ==
  /\ \A i \in DOMAIN all_exotic_bets :
       /\ NLt(One, all_exotic_bets[i].payout_odds)
       /\ NLt(Zero, all_exotic_bets[i].kelly_fraction)
            <=> NLt(Zero, all_exotic_bets[i].expected_value)
  /\ (pc \in {"signals", "done"} /\ error = "" /\ NLe(Zero, min_ev_threshold)) =>
       \A i \in DOMAIN ev_signals :
         /\ NLt(Zero, ev_signals[i].kelly_fraction)
         /\ NLt(Zero, ev_signals[i].recommended_stake)
  /\ (pc = "done" /\ error = "" /\ all_exotic_bets # <<>>) =>
       results.summary_stats.total_kelly_allocation = KellyOfAll(all_exotic_bets)

\* a number without its term of order 1e-10
WithoutEpsilon(x) == <<x[1], x[2], RZero>>

Finite(x) == x[1] = RZero

NonZero(x) == WithoutEpsilon(x) # Zero

\* the sums the superfecta loop divides by while it places a, b and c
RemainingSums(a, b) ==
  <<FieldTotal,
    NSub(FieldTotal, WinProbabilityOf(a)),
    NSub(NSub(FieldTotal, WinProbabilityOf(a)), WinProbabilityOf(b))>>

\* the trifecta value of the claim is defined, and so are the three factors
\* of the superfecta loop
BothDefined(perm) ==
  /\ NonZero(NSub(One, WinProbabilityOf(perm[1])))
  /\ NonZero(NSub(NSub(One, WinProbabilityOf(perm[1])), WinProbabilityOf(perm[2])))
  /\ \A k \in 1..3 : NonZero(RemainingSums(perm[1], perm[2])[k])
  /\ \A k \in 1..3 : IsRational(RemainingSums(perm[1], perm[2])[k])

\* the product of the first three positional factors, the superfecta way
FirstThreeFactors(perm) == superfecta_loop(One, calibrated_horses, perm)

ErrorReplyLeavesOptimizer ==
  (pc = "serving" /\ pc' = "replied" /\ reply'.status \in {400, 500}) =>
    /\ min_ev_threshold' = min_ev_threshold
    /\ signal_history' = signal_history

\* C30: an /optimize request that ends in an error response (400 for a
\* missing field, 500 because the optimization raised) leaves the shared
\* optimizer as it was: min_ev_threshold keeps its value and signal_history
\* gains no entry.
C30_ErrorReplyLeavesOptimizerState == [][ErrorReplyLeavesOptimizer]_vars

====
